---- MODULE Spec2Model ----
(***************************************************************************)
(* FocusTab new-tab page: the paged scroll engine of App().                *)
(*                                                                         *)
(* Lengths that the DOM reports as integers (scrollWidth, clientWidth,     *)
(* columnStep) are in CSS pixels.  Scroll offsets (viewport.scrollLeft,    *)
(* scrollTargetRef, the snap points) and wheel deltas are in hundredths of *)
(* a pixel, so that 0.16 * delta, 0.22 * columnStep, the 0.4px epsilon and *)
(* the 0.5px tolerances are exact integers; the easing products            *)
(* delta * 0.26 and delta * 0.22 are truncated to that resolution.         *)
(* Indices are 0-based as in the source; points[i] is Nth(points, i).      *)
(***************************************************************************)
EXTENDS Integers, Sequences, FiniteSets, TLC

VARIABLES
    settingsOpen,     \* useState settingsOpen
    columnStep,       \* tileWidth + gridGapX, px
    clientWidth,      \* viewport.clientWidth, px
    scrollWidth,      \* viewport.scrollWidth, px
    scrollLeft,       \* viewport.scrollLeft
    scrollTarget,     \* scrollTargetRef.current
    scrollRaf,        \* scrollRafRef.current: 0 is null, else a frame id
    rafQueue,         \* frame callbacks the browser holds: [id, fn]
    pageRaf,          \* onViewportScroll's frame callback is pending
    now,              \* performance.now(), ms (sliding window, see Elapse)
    lastWheelTs,      \* lastWheelTsRef.current
    lastWheelDelta,   \* lastWheelDeltaRef.current
    snapPoints,       \* snapPointsRef.current
    pageCount,        \* useState pageCount
    activePage,       \* useState activePage
    inputs,           \* number of input events delivered so far
    last,             \* the last input event or call, with the state it met
    links,                        \* useState links: <<[id, useSiteFavicon]>>
    faviconChoiceByLink,          \* useState faviconChoiceByLink
    savedFaviconPrefs,            \* the map in storage (saveFaviconPrefs)
    faviconFallbackOffsetByLink,  \* useState faviconFallbackOffsetByLink
    faviconRefreshState,          \* useState: "idle", "loading", "done"
    faviconRefreshProgress,       \* useState: [done, total], or NoProgress
    faviconFeedbackTimer,         \* faviconFeedbackTimerRef.current is set
    refreshTask,                  \* the refreshFavicons call in flight
    implicitRuns,                 \* the implicit resolution runs in flight
    saveQueue,                    \* persistFaviconChoices calls awaiting storage
    progressLog,                  \* the progress values the refresh has set
    intended,                     \* per link, the last preference a path wrote
    failedResolution,             \* links the implicit resolution found nothing for
    faviconInputs,                \* number of favicon events still to deliver
    faviconLast,                  \* the last favicon step, with what it met
    storedLinks,                  \* the links in storage: <<[id, useSiteFavicon, order]>>
    meta                          \* the meta record in storage: [linksSeeded]

vars == <<settingsOpen, columnStep, clientWidth, scrollWidth, scrollLeft,
          scrollTarget, scrollRaf, rafQueue, pageRaf, now, lastWheelTs,
          lastWheelDelta, snapPoints, pageCount, activePage, inputs, last,
          links, faviconChoiceByLink, savedFaviconPrefs,
          faviconFallbackOffsetByLink, faviconRefreshState,
          faviconRefreshProgress, faviconFeedbackTimer, refreshTask,
          implicitRuns, saveQueue, progressLog, intended, failedResolution,
          faviconInputs,
          faviconLast, storedLinks, meta>>

geometry == <<columnStep, clientWidth, scrollWidth>>
wheelRefs == <<lastWheelTs, lastWheelDelta>>

scrolling == <<settingsOpen, columnStep, clientWidth, scrollWidth, scrollLeft,
               scrollTarget, scrollRaf, rafQueue, pageRaf, now, lastWheelTs,
               lastWheelDelta, snapPoints, pageCount, activePage, inputs, last>>

linkStore == <<storedLinks, meta>>

favicons == <<links, faviconChoiceByLink, savedFaviconPrefs,
              faviconFallbackOffsetByLink, faviconRefreshState,
              faviconRefreshProgress, faviconFeedbackTimer, refreshTask,
              implicitRuns, saveQueue, progressLog, intended, failedResolution,
              faviconInputs, faviconLast, storedLinks, meta>>

\* {}: the record with no key
EmptyMap == [k \in {} |-> ""]

\* faviconRefreshProgress null
NoProgress == [done |-> -1, total |-> -1]

\* no refreshFavicons call is in flight
NoRefresh == [pc |-> "none", refreshableLinks |-> <<>>, index |-> 0,
              nextChoices |-> EmptyMap, seen |-> EmptyMap, written |-> {}]

-----------------------------------------------------------------------------
(* Storage of the links *)

\* persistLinks, line 1355: every link gets its index as order
Ordered(nextLinks) ==
    [i \in DOMAIN nextLinks |->
        [id |-> nextLinks[i].id,
         useSiteFavicon |-> nextLinks[i].useSiteFavicon,
         order |-> i - 1]]

\* the links as the page holds them: their position stands for their order
Displayed(saved) ==
    [i \in DOMAIN saved |->
        [id |-> saved[i].id, useSiteFavicon |-> saved[i].useSiteFavicon]]

\* one link put into a sorted list, behind the links of the same order
RECURSIVE InsertByOrder(_, _)
InsertByOrder(link, sorted) ==
    IF sorted = <<>> THEN << link >>
    ELSE IF link.order < Head(sorted).order THEN << link >> \o sorted
    ELSE << Head(sorted) >> \o InsertByOrder(link, Tail(sorted))

\* sortLinks (storage), lines 167-169: ascending order, stable
RECURSIVE sortLinks(_)
sortLinks(ls) ==
    IF ls = <<>> THEN <<>>
    ELSE InsertByOrder(ls[Len(ls)], sortLinks(SubSeq(ls, 1, Len(ls) - 1)))

\* saveLinks (storage), lines 354-364: what it stores and returns
saveLinks(nextLinks) == sortLinks(nextLinks)

\* createSeedLinks (storage), lines 181-195, with two seed links; the ids
\* are random in the program, here the two seed links carry the same two
\* names each time they are created
createSeedLinks ==
    << [id |-> "a", useSiteFavicon |-> TRUE, order |-> 0],
       [id |-> "b", useSiteFavicon |-> TRUE, order |-> 1] >>

\* meta with linksSeeded set, saveMeta({ linksSeeded: true })
Seeded(m) == [m EXCEPT !.linksSeeded = TRUE]

\* the condition under which getLinks creates the seed links, lines 331
\* and 344
Seeds(stored, m) == ~m.linksSeeded \/ Len(stored) = 0

\* getLinks (storage), lines 325-352: what it returns, and the storage after
getLinks(stored, m) ==
    IF Seeds(stored, m)
    THEN [result |-> createSeedLinks, stored |-> createSeedLinks, meta |-> Seeded(m)]
    ELSE [result |-> sortLinks(stored), stored |-> stored, meta |-> m]

\* the storage holds what persistLinks wrote for the links of the page
StoreHolds(ls) ==
    /\ storedLinks = saveLinks(Ordered(ls))
    /\ meta = [linksSeeded |-> TRUE]

-----------------------------------------------------------------------------
\* the favicon state of a page without links
NoFavicons ==
    /\ links = <<>>
    /\ faviconChoiceByLink = EmptyMap
    /\ savedFaviconPrefs = EmptyMap
    /\ StoreHolds(links)
    /\ faviconFallbackOffsetByLink = EmptyMap
    /\ faviconRefreshState = "idle"
    /\ faviconRefreshProgress = NoProgress
    /\ faviconFeedbackTimer = FALSE
    /\ refreshTask = NoRefresh
    /\ implicitRuns = {}
    /\ saveQueue = <<>>
    /\ progressLog = <<>>
    /\ intended = EmptyMap
    /\ failedResolution = {}
    /\ faviconInputs = 0
    /\ faviconLast = [op |-> "mount"]

-----------------------------------------------------------------------------
(* Arithmetic *)

Abs(x) == IF x < 0 THEN -x ELSE x
Max(a, b) == IF a >= b THEN a ELSE b
Min(a, b) == IF a <= b THEN a ELSE b
Sign(x) == IF x > 0 THEN 1 ELSE IF x < 0 THEN -1 ELSE 0
Px(n) == n * 100
Nth(points, i) == points[i + 1]

\* x * pct / 100, truncated toward zero
Scaled(x, pct) == Sign(x) * ((Abs(x) * pct) \div 100)

\* Math.round(a / b) for a >= 0, b > 0
RoundDiv(a, b) == (2 * a + b) \div (2 * b)

\* Infinity, the value Number.isFinite rejects
NotFinite == 1000000
IsFiniteUnchecked(x) == TRUE
IsFinite(x) == x # NotFinite

-----------------------------------------------------------------------------
(* Program constants *)

Epsilon == 40               \* 0.4px
IdleMs == 85
SnapTolerance == 50         \* 0.5px
MinDelta == 50              \* 0.5px
SafetyLimit == 5000
MinMagnet == 28
OverflowSlack == 2
DOM_DELTA_PIXEL == 0
DOM_DELTA_LINE == 1
DOM_DELTA_PAGE == 2
LinePx == 16

-----------------------------------------------------------------------------
(* findNearestSnapIndex *)

RECURSIVE NearestScan(_, _, _, _, _)
NearestScan(points, left, index, nearest, nearestDistance) ==
    IF index >= Len(points) THEN nearest
    ELSE LET distance == Abs(Nth(points, index) - left)
         IN  IF distance < nearestDistance
             THEN NearestScan(points, left, index + 1, index, distance)
             ELSE NearestScan(points, left, index + 1, nearest, nearestDistance)

RECURSIVE NearestScanLastWins(_, _, _, _, _)
NearestScanLastWins(points, left, index, nearest, nearestDistance) ==
    IF index >= Len(points) THEN nearest
    ELSE LET distance == Abs(Nth(points, index) - left)
         IN  IF distance <= nearestDistance
             THEN NearestScanLastWins(points, left, index + 1, index, distance)
             ELSE NearestScanLastWins(points, left, index + 1, nearest, nearestDistance)

findNearestSnapIndexLastWins(points, left) ==
    IF Len(points) <= 1 THEN 0
    ELSE NearestScanLastWins(points, left, 1, 0, Abs(Nth(points, 0) - left))

findNearestSnapIndex(points, left) ==
    IF Len(points) <= 1 THEN 0
    ELSE NearestScan(points, left, 1, 0, Abs(Nth(points, 0) - left))

-----------------------------------------------------------------------------
(* findDirectionalSnapIndex *)

RECURSIVE ForwardScan(_, _, _)
ForwardScan(points, left, index) ==
    IF index >= Len(points) THEN Len(points) - 1
    ELSE IF Nth(points, index) >= left THEN index
    ELSE ForwardScan(points, left, index + 1)

RECURSIVE BackwardScan(_, _, _)
BackwardScan(points, left, index) ==
    IF index < 0 THEN 0
    ELSE IF Nth(points, index) <= left THEN index
    ELSE BackwardScan(points, left, index - 1)

findDirectionalSnapIndexStrict(points, left, direction) ==
    IF Len(points) <= 1 \/ direction = 0 THEN findNearestSnapIndex(points, left)
    ELSE IF direction > 0
         THEN ForwardScan(points, left + 1, 0)
         ELSE BackwardScan(points, left - 1, Len(points) - 1)

findDirectionalSnapIndex(points, left, direction) ==
    IF Len(points) <= 1 \/ direction = 0 THEN findNearestSnapIndex(points, left)
    ELSE IF direction > 0
         THEN ForwardScan(points, left, 0)
         ELSE BackwardScan(points, left, Len(points) - 1)

-----------------------------------------------------------------------------
(* recalcSnapPoints *)

MaxLeft(sw, cw) == Px(Max(0, sw - cw))

RECURSIVE PointsLoop(_, _, _, _)
PointsLoop(left, maxLeft, pageStep, safety) ==
    IF left <= maxLeft /\ safety < SafetyLimit
    THEN <<Min(maxLeft, left)>> \o PointsLoop(left + pageStep, maxLeft, pageStep, safety + 1)
    ELSE <<>>

PageStep(cs, cw) ==
    LET columnsPerPage == Max(1, RoundDiv(cw, cs))
    IN  Px(Max(cs, columnsPerPage * cs))

SnapPointsNoClamp(cs, sw, cw) ==
    LET maxLeft == MaxLeft(sw, cw)
    IN  IF ~IsFinite(cs) \/ cs <= 0 \/ maxLeft <= 0 THEN <<0>>
        ELSE PointsLoop(0, maxLeft, PageStep(cs, cw), 0)

\* the sequence recalcSnapPoints stores and returns
SnapPointsFor(cs, sw, cw) ==
    LET maxLeft == MaxLeft(sw, cw)
    IN  IF ~IsFinite(cs) \/ cs <= 0 \/ maxLeft <= 0 THEN <<0>>
        ELSE LET pageStep == PageStep(cs, cw)
                 points == PointsLoop(0, maxLeft, pageStep, 0)
             IN  IF pageStep <= 0 THEN <<0>>
                 ELSE IF Abs(points[Len(points)] - maxLeft) > SnapTolerance
                      THEN Append(points, maxLeft)
                      ELSE points

\* whether recalcSnapPoints took one of its single-page returns
Collapsed(cs, sw, cw) ==
    \/ ~IsFinite(cs) \/ cs <= 0
    \/ MaxLeft(sw, cw) <= 0
    \/ PageStep(cs, cw) <= 0

RecalcActivePageFirst(cs, sw, cw, left) == 0

\* the activePage recalcSnapPoints sets
RecalcActivePage(cs, sw, cw, left) ==
    IF Collapsed(cs, sw, cw) THEN 0
    ELSE findNearestSnapIndex(SnapPointsFor(cs, sw, cw), left)

\* viewport.scrollLeft = v: the browser keeps the offset in the scroll range
ClampLeft(v, sw, cw) == Min(MaxLeft(sw, cw), Max(0, v))

-----------------------------------------------------------------------------
(* Bounds and input alphabets *)

MaxInputs == 2              \* input events per run
FrameMs == 17               \* time between two animation frames

\* <<columnStep, clientWidth, scrollWidth>>
Geometries ==
    { <<140, 270, 690>>,    \* snap points 0, 280, 420
      <<140, 270, 272>>,    \* overflow of 2px
      <<140, 270, 270>>,    \* no overflow
      <<104, 198, 510>> }   \* snap points 0, 208, 312

WheelEvent(dx, dy, mode) == [deltaX |-> dx, deltaY |-> dy, deltaMode |-> mode]

\* deltas are in hundredths of the event's unit
WheelEvents ==
    { WheelEvent(0, 100000, DOM_DELTA_PIXEL),     \* +1000px
      WheelEvent(0, 25, DOM_DELTA_PIXEL),         \* 0.25px
      WheelEvent(-6250, 100, DOM_DELTA_LINE),     \* -62.5 lines across
      WheelEvent(0, 100, DOM_DELTA_PAGE) }        \* one page

\* the wheel events of the magnet cases
MagnetEvents ==
    WheelEvents \cup
    { WheelEvent(0, -100000, DOM_DELTA_PIXEL),    \* -1000px
      WheelEvent(0, 10000, DOM_DELTA_PIXEL),      \* +100px
      WheelEvent(0, 19250, DOM_DELTA_PIXEL),      \* +192.5px
      WheelEvent(0, 23750, DOM_DELTA_PIXEL),      \* +237.5px
      WheelEvent(0, 143750, DOM_DELTA_PIXEL),     \* +1437.5px
      WheelEvent(0, 146125, DOM_DELTA_PIXEL),     \* +1461.25px
      WheelEvent(0, 150000, DOM_DELTA_PIXEL),     \* +1500px
      WheelEvent(0, -31250, DOM_DELTA_PIXEL) }    \* -312.5px

PageIndexes == {-1, 1, 3}
DirectOffsets == { Px(0), Px(120) }

-----------------------------------------------------------------------------
(* Browser frame queue and clock *)

NewId(queue) ==
    CHOOSE id \in 1 .. Cardinality(queue) + 1 :
        /\ \A c \in queue : c.id # id
        /\ \A other \in 1 .. id - 1 : \E c \in queue : c.id = other

\* window.requestAnimationFrame(fn)
Requested(queue, fn) == queue \cup { [id |-> NewId(queue), fn |-> fn] }

CancelledNothing(queue, id) == queue

\* window.cancelAnimationFrame(id)
Cancelled(queue, id) == { c \in queue : c.id # id }

IdleOf(t, ts) == t - ts

\* FrameMs pass.  Once now exceeds IdleMs the window slides: now stays and
\* lastWheelTs moves back, which keeps now - lastWheelTs exact up to its cap.
NowAfter(t) == IF t <= IdleMs THEN t + FrameMs ELSE t
TsAfter(t, ts) == IF t <= IdleMs THEN ts ELSE Max(0, ts - FrameMs)

Elapse ==
    /\ UNCHANGED favicons
    /\ /\ rafQueue = {}
       /\ now <= IdleMs
       /\ now' = NowAfter(now)
       /\ lastWheelTs' = TsAfter(now, lastWheelTs)
       /\ UNCHANGED <<settingsOpen, geometry, scrollLeft, scrollTarget, scrollRaf,
                      rafQueue, pageRaf, lastWheelDelta, snapPoints, pageCount,
                      activePage, inputs, last>>

-----------------------------------------------------------------------------
(* State after mount: the layout effect and the scroll-listener effect ran *)

Init ==
    /\ NoFavicons
    /\ /\ \E g \in Geometries :
            /\ columnStep = g[1]
            /\ clientWidth = g[2]
            /\ scrollWidth = g[3]
            /\ snapPoints = SnapPointsFor(g[1], g[3], g[2])
            /\ pageCount = Len(SnapPointsFor(g[1], g[3], g[2]))
       /\ settingsOpen = FALSE
       /\ scrollLeft = 0
       /\ scrollTarget = 0
       /\ scrollRaf = 0
       /\ rafQueue = {}
       /\ pageRaf = FALSE
       /\ now = 0
       /\ lastWheelTs = 0
       /\ lastWheelDelta = 0
       /\ activePage = 0
       /\ inputs = 0
       /\ last = [op |-> "mount"]

-----------------------------------------------------------------------------
(* onGlobalWheel *)

NormalizedDelta(e, cw) ==
    LET rawDelta == IF Abs(e.deltaX) > Abs(e.deltaY) THEN e.deltaX ELSE e.deltaY
        deltaMultiplier ==
            IF e.deltaMode = DOM_DELTA_LINE THEN LinePx
            ELSE IF e.deltaMode = DOM_DELTA_PAGE THEN cw
            ELSE 1
    IN  rawDelta * deltaMultiplier

MagnetRadiusFixed(cs) == Px(MinMagnet)

\* Math.max(28, columnStep * 0.22)
MagnetRadius(cs) == Max(Px(MinMagnet), cs * 22)

FreeTargetUnclamped(baseTarget, normalizedDelta, sw, cw) ==
    baseTarget + Scaled(normalizedDelta, 16)

\* lines 1236-1237
FreeTarget(baseTarget, normalizedDelta, sw, cw) ==
    Min(MaxLeft(sw, cw), Max(0, baseTarget + Scaled(normalizedDelta, 16)))

NextTargetWideDirectional(points, freeTarget, direction, cs) ==
    LET nearestPoint == Nth(points, findNearestSnapIndex(points, freeTarget))
        directionalPoint == Nth(points, findDirectionalSnapIndex(points, freeTarget, direction))
    IN  IF Abs(nearestPoint - freeTarget) <= MagnetRadius(cs)
        THEN nearestPoint
        ELSE IF Abs(directionalPoint - freeTarget) <= MagnetRadius(cs) * 2
             THEN directionalPoint
             ELSE freeTarget

\* the magnetic snapping of lines 1239-1250
NextTarget(points, freeTarget, direction, cs) ==
    LET nearestPoint == Nth(points, findNearestSnapIndex(points, freeTarget))
        directionalPoint == Nth(points, findDirectionalSnapIndex(points, freeTarget, direction))
    IN  IF Abs(nearestPoint - freeTarget) <= MagnetRadius(cs)
        THEN nearestPoint
        ELSE IF 2 * Abs(directionalPoint - freeTarget) <= MagnetRadius(cs) * 3
             THEN directionalPoint
             ELSE freeTarget

WheelSchedulesAlways(queue, raf) == Requested(queue, "animateScroll")

\* lines 1258-1260: the frame queue after a handled wheel event
WheelSchedules(queue, raf) ==
    IF raf = 0 THEN Requested(queue, "animateScroll") ELSE queue

IsNoiseNever(normalizedDelta) == FALSE

\* line 1228: a delta below the threshold is ignored
IsNoise(normalizedDelta) == Abs(normalizedDelta) < MinDelta

SinglePageNever(sw, cw) == FALSE

\* line 1211: the content does not overflow the viewport by more than 2px
SinglePage(sw, cw) == sw <= cw + OverflowSlack

onGlobalWheel(e) ==
    /\ UNCHANGED favicons
    /\ LET normalizedDelta == NormalizedDelta(e, clientWidth)
           points == SnapPointsFor(columnStep, scrollWidth, clientWidth)
           baseTarget == IF scrollRaf # 0 THEN scrollTarget ELSE scrollLeft
           direction == Sign(normalizedDelta)
           freeTarget == FreeTarget(baseTarget, normalizedDelta, scrollWidth, clientWidth)
           nextTarget == NextTarget(points, freeTarget, direction, columnStep)
           queue == WheelSchedules(rafQueue, scrollRaf)
       IN  /\ inputs < MaxInputs
           /\ inputs' = inputs + 1
           /\ IF settingsOpen
              THEN /\ last' = [op |-> "wheel", path |-> "settings", event |-> e]
                   /\ UNCHANGED <<settingsOpen, geometry, scrollLeft, scrollTarget,
                                  scrollRaf, rafQueue, pageRaf, now, wheelRefs,
                                  snapPoints, pageCount, activePage>>
              ELSE IF SinglePage(scrollWidth, clientWidth)
              THEN /\ pageCount' = 1
                   /\ activePage' = 0
                   /\ last' = [op |-> "wheel", path |-> "single", event |-> e]
                   /\ UNCHANGED <<settingsOpen, geometry, scrollLeft, scrollTarget,
                                  scrollRaf, rafQueue, pageRaf, now, wheelRefs,
                                  snapPoints>>
              ELSE IF IsNoise(normalizedDelta)
              THEN /\ last' = [op |-> "wheel", path |-> "noise", event |-> e]
                   /\ UNCHANGED <<settingsOpen, geometry, scrollLeft, scrollTarget,
                                  scrollRaf, rafQueue, pageRaf, now, wheelRefs,
                                  snapPoints, pageCount, activePage>>
              ELSE /\ snapPoints' = points
                   /\ pageCount' = Len(points)
                   /\ lastWheelTs' = now
                   /\ lastWheelDelta' = normalizedDelta
                   /\ scrollTarget' = nextTarget
                   /\ activePage' = findNearestSnapIndex(points, nextTarget)
                   /\ rafQueue' = queue
                   /\ scrollRaf' = IF scrollRaf = 0 THEN NewId(rafQueue) ELSE scrollRaf
                   /\ last' = [op |-> "wheel", path |-> "handled", event |-> e,
                               freeTarget |-> freeTarget, direction |-> direction,
                               loop |-> scrollRaf # 0]
                   /\ UNCHANGED <<settingsOpen, geometry, scrollLeft, pageRaf, now>>

-----------------------------------------------------------------------------
(* scrollToPage *)

\* line 1319
ClampedIndex(pageIndex, points) == Max(0, Min(pageIndex, Len(points) - 1))

scrollToPage(pageIndex) ==
    /\ UNCHANGED favicons
    /\ LET clampedIndex == ClampedIndex(pageIndex, snapPoints)
           target == Nth(snapPoints, clampedIndex)
       IN  /\ inputs < MaxInputs
           /\ inputs' = inputs + 1
           /\ Len(snapPoints) # 0
           /\ lastWheelTs' = 0
           /\ scrollTarget' = target
           /\ activePage' = clampedIndex
           /\ IF scrollRaf = 0
              THEN /\ rafQueue' = Requested(rafQueue, "animate")
                   /\ scrollRaf' = NewId(rafQueue)
              ELSE UNCHANGED <<rafQueue, scrollRaf>>
           /\ last' = [op |-> "scrollToPage", pageIndex |-> pageIndex,
                       pages |-> pageCount,
                       settled |-> /\ scrollRaf = 0
                                   /\ scrollLeft = target
                                   /\ scrollTarget = target
                                   /\ activePage = clampedIndex]
           /\ UNCHANGED <<settingsOpen, geometry, scrollLeft, pageRaf, now,
                          lastWheelDelta, snapPoints, pageCount>>

-----------------------------------------------------------------------------
(* Frame callbacks *)

\* the scroll event of a changed offset reaches onViewportScroll, which
\* requests its frame callback
ScrollEvent(left) == IF left # scrollLeft THEN TRUE ELSE pageRaf

SettleIndexNearest(points, targetLeft, direction) ==
    findNearestSnapIndex(points, targetLeft)

\* lines 1177-1181
SettleIndex(points, targetLeft, direction) ==
    IF direction = 0
    THEN findNearestSnapIndex(points, targetLeft)
    ELSE findDirectionalSnapIndex(points, targetLeft, direction)

\* animateScroll, the loop a wheel event starts
animateScroll ==
    /\ UNCHANGED favicons
    /\ \E c \in rafQueue :
         /\ c.fn = "animateScroll"
         /\ now' = NowAfter(now)
         /\ LET ts == TsAfter(now, lastWheelTs)
                currentLeft == scrollLeft
                targetLeft == scrollTarget
                delta == targetLeft - currentLeft
                fired == rafQueue \ {c}
                idleMs == IdleOf(now', ts)
                points == SnapPointsFor(columnStep, scrollWidth, clientWidth)
                arrived == ClampLeft(targetLeft, scrollWidth, clientWidth)
                direction == Sign(lastWheelDelta)
                snappedIndex == SettleIndex(points, targetLeft, direction)
                snappedLeft == Nth(points, snappedIndex)
            IN  /\ lastWheelTs' = ts
                /\ IF Abs(delta) < Epsilon
                   THEN /\ scrollLeft' = arrived
                        /\ pageRaf' = ScrollEvent(arrived)
                        /\ IF idleMs <= IdleMs
                           THEN /\ rafQueue' = Requested(fired, "animateScroll")
                                /\ scrollRaf' = NewId(fired)
                                /\ UNCHANGED <<scrollTarget, lastWheelDelta, snapPoints,
                                               pageCount, activePage>>
                           ELSE /\ snapPoints' = points
                                /\ pageCount' = Len(points)
                                /\ activePage' = snappedIndex
                                /\ IF Abs(snappedLeft - targetLeft) > Epsilon
                                   THEN /\ scrollTarget' = snappedLeft
                                        /\ rafQueue' = Requested(fired, "animateScroll")
                                        /\ scrollRaf' = NewId(fired)
                                        /\ UNCHANGED lastWheelDelta
                                   ELSE /\ lastWheelDelta' = 0
                                        /\ scrollRaf' = 0
                                        /\ rafQueue' = fired
                                        /\ UNCHANGED scrollTarget
                   ELSE /\ scrollLeft' = ClampLeft(currentLeft + Scaled(delta, 26),
                                                   scrollWidth, clientWidth)
                        /\ pageRaf' = ScrollEvent(scrollLeft')
                        /\ rafQueue' = Requested(fired, "animateScroll")
                        /\ scrollRaf' = NewId(fired)
                        /\ UNCHANGED <<scrollTarget, lastWheelDelta, snapPoints,
                                       pageCount, activePage>>
         /\ UNCHANGED <<settingsOpen, geometry, inputs, last>>

AfterArrivalKeepsLoop(fired) == Requested(fired, "animate")

\* lines 1335-1339: at the target the loop requests no further frame
AfterArrival(fired) == fired

\* animate, the loop scrollToPage starts
animate ==
    /\ UNCHANGED favicons
    /\ \E c \in rafQueue :
         /\ c.fn = "animate"
         /\ now' = NowAfter(now)
         /\ lastWheelTs' = TsAfter(now, lastWheelTs)
         /\ LET delta == scrollTarget - scrollLeft
                fired == rafQueue \ {c}
            IN  IF Abs(delta) < Epsilon
                THEN /\ scrollLeft' = ClampLeft(scrollTarget, scrollWidth, clientWidth)
                     /\ rafQueue' = AfterArrival(fired)
                     /\ scrollRaf' = IF rafQueue' = fired THEN 0 ELSE NewId(fired)
                ELSE /\ scrollLeft' = ClampLeft(scrollLeft + Scaled(delta, 22),
                                                scrollWidth, clientWidth)
                     /\ rafQueue' = Requested(fired, "animate")
                     /\ scrollRaf' = NewId(fired)
         /\ pageRaf' = ScrollEvent(scrollLeft')
         /\ UNCHANGED <<settingsOpen, geometry, scrollTarget, lastWheelDelta,
                        snapPoints, pageCount, activePage, inputs, last>>

\* the frame callback of onViewportScroll
onViewportScrollFrame ==
    /\ UNCHANGED favicons
    /\ /\ pageRaf
       /\ pageRaf' = FALSE
       /\ activePage' = findNearestSnapIndex(snapPoints, scrollLeft)
       /\ UNCHANGED <<settingsOpen, geometry, scrollLeft, scrollTarget, scrollRaf,
                      rafQueue, now, wheelRefs, snapPoints, pageCount, inputs, last>>

-----------------------------------------------------------------------------
(* Layout, resize, settings overlay, direct scrolling *)

\* onResize: the window changes the viewport's widths, the browser keeps the
\* offset in the new scroll range, and the handler recomputes the snap points
onResize(g) ==
    /\ UNCHANGED favicons
    /\ /\ inputs < MaxInputs
       /\ inputs' = inputs + 1
       /\ g[1] = columnStep
       /\ <<g[2], g[3]>> # <<clientWidth, scrollWidth>>
       /\ clientWidth' = g[2]
       /\ scrollWidth' = g[3]
       /\ scrollLeft' = ClampLeft(scrollLeft, g[3], g[2])
       /\ pageRaf' = ScrollEvent(scrollLeft')
       /\ snapPoints' = SnapPointsFor(columnStep, g[3], g[2])
       /\ pageCount' = Len(snapPoints')
       /\ activePage' = RecalcActivePage(columnStep, g[3], g[2], scrollLeft')
       /\ last' = [op |-> "resize", geometry |-> g]
       /\ UNCHANGED <<settingsOpen, columnStep, scrollTarget, scrollRaf, rafQueue,
                      now, wheelRefs>>

\* the layout effect of lines 1138-1153, after a change of query, rows,
\* columns, icon size or the number of visible links
onLayoutChange(g) ==
    /\ UNCHANGED favicons
    /\ /\ inputs < MaxInputs
       /\ inputs' = inputs + 1
       /\ columnStep' = g[1]
       /\ clientWidth' = g[2]
       /\ scrollWidth' = g[3]
       /\ rafQueue' = Cancelled(rafQueue, scrollRaf)
       /\ scrollRaf' = 0
       /\ snapPoints' = SnapPointsFor(g[1], g[3], g[2])
       /\ pageCount' = Len(snapPoints')
       /\ scrollTarget' = 0
       /\ scrollLeft' = 0
       /\ pageRaf' = ScrollEvent(0)
       /\ activePage' = 0
       /\ last' = [op |-> "layout", geometry |-> g]
       /\ UNCHANGED <<settingsOpen, now, wheelRefs>>

\* opening or closing the settings overlay re-runs the wheel effect, whose
\* cleanup (lines 1264-1270) cancels the scheduled frame
setSettingsOpen(open) ==
    /\ UNCHANGED favicons
    /\ /\ inputs < MaxInputs
       /\ inputs' = inputs + 1
       /\ open # settingsOpen
       /\ settingsOpen' = open
       /\ rafQueue' = Cancelled(rafQueue, scrollRaf)
       /\ scrollRaf' = 0
       /\ last' = [op |-> "settings", open |-> open]
       /\ UNCHANGED <<geometry, scrollLeft, scrollTarget, pageRaf, now, wheelRefs,
                      snapPoints, pageCount, activePage>>

\* the user scrolls the viewport directly (touch, scroll bar)
directScroll(left) ==
    /\ UNCHANGED favicons
    /\ /\ inputs < MaxInputs
       /\ inputs' = inputs + 1
       /\ left <= MaxLeft(scrollWidth, clientWidth)
       /\ left # scrollLeft
       /\ scrollLeft' = left
       /\ pageRaf' = TRUE
       /\ last' = [op |-> "scroll", left |-> left]
       /\ UNCHANGED <<settingsOpen, geometry, scrollTarget, scrollRaf, rafQueue,
                      now, wheelRefs, snapPoints, pageCount, activePage>>

-----------------------------------------------------------------------------
(* Specifications *)

Next ==
    \/ \E e \in WheelEvents : onGlobalWheel(e)
    \/ \E i \in PageIndexes : scrollToPage(i)
    \/ animateScroll
    \/ animate
    \/ onViewportScrollFrame
    \/ \E g \in Geometries : onResize(g)
    \/ \E g \in Geometries : onLayoutChange(g)
    \/ \E open \in BOOLEAN : setSettingsOpen(open)
    \/ \E left \in DirectOffsets : directScroll(left)
    \/ Elapse

Spec == Init /\ [][Next]_vars

\* the browser runs every requested frame callback
FairSpec ==
    /\ Spec
    /\ WF_vars(animateScroll)
    /\ WF_vars(animate)
    /\ WF_vars(onViewportScrollFrame)

\* wheel events and scrollToPage calls only
PagingNext ==
    \/ \E e \in WheelEvents : onGlobalWheel(e)
    \/ \E i \in PageIndexes : scrollToPage(i)
    \/ animateScroll
    \/ animate
    \/ onViewportScrollFrame
    \/ Elapse

PagingSpec == Init /\ [][PagingNext]_vars

-----------------------------------------------------------------------------
(* The snap functions on drawn inputs *)

MaxOverflow == 450          \* scrollWidth - clientWidth, px, at most

FnColumnSteps == { NotFinite, -10, 0, 104, 140, 184 }
FnClientWidths == { 0, 51, 52, 104, 156, 198, 270, 302 }
TestPoints == { <<0>>, <<0, 10000>>, <<0, 20000>>, <<0, 10000, 20000>>,
                <<0, 10000, 30000>>, <<0, 20000, 25000>>,
                <<0, 10000, 20000, 30000>>, <<0, 28000, 42000>> }
TestLefts == { -5000, 0, 5000, 10000, 15000, 17500, 20000, 22500, 30000, 35000 }

FnInit ==
    /\ NoFavicons
    /\ /\ settingsOpen = FALSE
       /\ scrollTarget = 0
       /\ scrollRaf = 0
       /\ rafQueue = {}
       /\ pageRaf = FALSE
       /\ now = 0
       /\ lastWheelTs = 0
       /\ lastWheelDelta = 0
       /\ inputs = 0
       /\ \/ /\ columnStep \in FnColumnSteps
             /\ clientWidth \in FnClientWidths
             /\ \E overflow \in 0 .. MaxOverflow : scrollWidth = clientWidth + overflow
             /\ scrollLeft \in { 0, MaxLeft(scrollWidth, clientWidth) }
             /\ snapPoints = <<0, 100>>
             /\ pageCount = 2
             /\ activePage \in 0 .. 1
             /\ last = [op |-> "geometry"]
          \/ /\ columnStep = 140
             /\ clientWidth = 270
             /\ scrollWidth = 690
             /\ scrollLeft = 0
             /\ snapPoints \in TestPoints
             /\ pageCount = Len(snapPoints)
             /\ activePage = 0
             /\ last = [op |-> "points"]

CallRecalcSnapPoints ==
    /\ UNCHANGED favicons
    /\ /\ last.op = "geometry"
       /\ snapPoints' = SnapPointsFor(columnStep, scrollWidth, clientWidth)
       /\ pageCount' = Len(snapPoints')
       /\ activePage' = RecalcActivePage(columnStep, scrollWidth, clientWidth, scrollLeft)
       /\ last' = [op |-> "recalcSnapPoints"]
       /\ UNCHANGED <<settingsOpen, geometry, scrollLeft, scrollTarget, scrollRaf,
                      rafQueue, pageRaf, now, wheelRefs, inputs>>

CallFindNearestSnapIndex(left) ==
    /\ UNCHANGED favicons
    /\ /\ last.op \notin { "geometry", "recalcSnapPoints" }
       /\ last' = [op |-> "findNearestSnapIndex", left |-> left,
                   result |-> findNearestSnapIndex(snapPoints, left)]
       /\ UNCHANGED <<settingsOpen, geometry, scrollLeft, scrollTarget, scrollRaf,
                      rafQueue, pageRaf, now, wheelRefs, snapPoints, pageCount,
                      activePage, inputs>>

CallFindDirectionalSnapIndex(left, direction) ==
    /\ UNCHANGED favicons
    /\ /\ last.op \notin { "geometry", "recalcSnapPoints" }
       /\ last' = [op |-> "findDirectionalSnapIndex", left |-> left,
                   direction |-> direction,
                   result |-> findDirectionalSnapIndex(snapPoints, left, direction)]
       /\ UNCHANGED <<settingsOpen, geometry, scrollLeft, scrollTarget, scrollRaf,
                      rafQueue, pageRaf, now, wheelRefs, snapPoints, pageCount,
                      activePage, inputs>>

FnNext ==
    \/ CallRecalcSnapPoints
    \/ \E left \in TestLefts : CallFindNearestSnapIndex(left)
    \/ \E left \in TestLefts, direction \in {-3, -1, 0, 1, 2} :
         CallFindDirectionalSnapIndex(left, direction)

FnSpec == FnInit /\ [][FnNext]_vars

-----------------------------------------------------------------------------
(* Wheel events in succession, from rest, before any frame runs *)

MagnetGeometries == { <<140, 270, 690>>, <<140, 270, 630>>, <<104, 198, 510>> }

WheelInit ==
    /\ NoFavicons
    /\ /\ \E g \in MagnetGeometries :
            /\ columnStep = g[1]
            /\ clientWidth = g[2]
            /\ scrollWidth = g[3]
            /\ snapPoints = SnapPointsFor(g[1], g[3], g[2])
            /\ pageCount = Len(snapPoints)
            /\ scrollLeft \in { 0, Px(120), Px(280), MaxLeft(g[3], g[2]) }
       /\ scrollTarget = scrollLeft
       /\ activePage = findNearestSnapIndex(snapPoints, scrollLeft)
       /\ settingsOpen = FALSE
       /\ scrollRaf = 0
       /\ rafQueue = {}
       /\ pageRaf = FALSE
       /\ now \in { 0, IdleMs + FrameMs }
       /\ lastWheelTs = 0
       /\ lastWheelDelta = 0
       /\ inputs = 0
       /\ last = [op |-> "rest"]

WheelNext == \E e \in MagnetEvents : onGlobalWheel(e)

WheelSpec == WheelInit /\ [][WheelNext]_vars

-----------------------------------------------------------------------------
(* Favicons: candidates, scores, the quality floor *)

\* Records such as faviconChoiceByLink are functions over the keys they hold
Has(map, key) == key \in DOMAIN map
Put(map, key, value) ==
    [k \in DOMAIN map \cup {key} |-> IF k = key THEN value ELSE map[k]]
Without(map, key) == [k \in DOMAIN map \ {key} |-> map[k]]
Restrict(map, keys) == [k \in DOMAIN map \cap keys |-> map[k]]

\* null, and the undefined of a missing key, where a URL is expected
NoUrl == ""
Lookup(map, key) == IF Has(map, key) THEN map[key] ELSE NoUrl

\* The URLs of one link.  "ico" is origin/favicon.ico, "png" is
\* origin/apple-touch-icon.png, "ddg" is icons.duckduckgo.com/ip3/host.ico;
\* "old" is a URL that is not among the link's candidates (a preference kept
\* from before the link's URL was edited).
\* getFaviconCandidates, lines 321-348, cut to three of its thirteen entries
getFaviconCandidates == <<"ico", "png", "ddg">>

\* String.prototype.trim for the strings of the model: " ico " is the URL
\* "ico" with spaces around it, "  " holds spaces only
Trim(url) ==
    CASE url = " ico " -> "ico"
      [] url = "  " -> ""
      [] OTHER -> url

KeepsDuplicates(urls, seen) == urls

\* Array.from(new Set([preferred, ...base]))
RECURSIVE Deduplicated(_, _)
Deduplicated(urls, seen) ==
    IF urls = <<>> THEN <<>>
    ELSE IF Head(urls) \in seen THEN Deduplicated(Tail(urls), seen)
    ELSE <<Head(urls)>> \o Deduplicated(Tail(urls), seen \cup { Head(urls) })

getRenderableFaviconCandidates(preferredFaviconUrl) ==
    LET preferred == Trim(preferredFaviconUrl)
    IN  IF preferred = NoUrl
        THEN getFaviconCandidates
        ELSE Deduplicated(<<preferred>> \o getFaviconCandidates, {})

\* URLs that are not candidates of the link but can be stored preferences or
\* arguments of the scoring: "svg" is origin/favicon.svg, "vite" is
\* origin/vite.svg, "gurl" is google.com/s2/favicons?...&domain_url=,
\* "gstatic" is t0.gstatic.com/faviconV2?...&url=, "gdom" is
\* google.com/s2/favicons?domain=; "same", "sub", "parent" and "far" are
\* /icon.png on the link's host, on a subdomain of it, on its parent domain and
\* on another host.

\* hostnames are sequences of labels; the link's URL is on example.com
TargetHostname == << "example", "com" >>

\* getHostname of each URL, lines 313-319 (a leading www. is removed)
getHostname(url) ==
    CASE url \in { "ico", "png", "svg", "vite", "same" } -> << "example", "com" >>
      [] url = "ddg" -> << "icons", "duckduckgo", "com" >>
      [] url \in { "gurl", "gdom" } -> << "google", "com" >>
      [] url = "gstatic" -> << "t0", "gstatic", "com" >>
      [] url = "sub" -> << "cdn", "example", "com" >>
      [] url = "parent" -> << "com" >>
      [] url = "far" -> << "other", "org" >>
      [] OTHER -> << "old", "org" >>

\* host.endsWith(`.${suffix}`)
EndsWithDot(host, suffix) ==
    /\ Len(host) > Len(suffix)
    /\ SubSeq(host, Len(host) - Len(suffix) + 1, Len(host)) = suffix

IsSameDomainExact(candidateHostname, targetHostname) ==
    candidateHostname = targetHostname

\* sameDomain, lines 381-385
IsSameDomain(candidateHostname, targetHostname) ==
    \/ candidateHostname = targetHostname
    \/ EndsWithDot(candidateHostname, targetHostname)
    \/ EndsWithDot(targetHostname, candidateHostname)

\* what the regular expressions of scoreFaviconCandidate,
\* isLowQualityGoogleDomainFavicon and isLowQualityProviderFavicon find in
\* each URL
SameDomain(url) == IsSameDomain(getHostname(url), TargetHostname)
IsSvg(url) == url \in { "svg", "vite" }
NamedFavicon(url) == url \in { "ico", "old", "svg" }
NamedTouchIcon(url) == url = "png"
NamedViteSvg(url) == url = "vite"
GoogleDomainUrl(url) == url = "gurl"
GstaticUrl(url) == url = "gstatic"
GoogleDomain(url) == url = "gdom"
NamedFaviconIco(url) == url = "ico"
FromDuckDuckGo(url) == url \in { "ddg", "gurl", "gdom" }
FromProvider(url) == url \in { "ddg", "gurl", "gdom", "gstatic" }

\* isLowQualityGoogleDomainFavicon, lines 443-445
isLowQualityGoogleDomainFavicon(url) == GoogleDomain(url)

\* the score of a candidate nobody has probed successfully yet
MinusInfinity == -1000000
TooSmall == -1000
MinScoredSide == 12
SvgSide == 64

\* lines 369-370: the side the score is computed from
SafeSideNoSvg(side, isSvg) == IF side > 0 THEN side ELSE 0
SafeSide(side, isSvg) == IF side > 0 THEN side ELSE IF isSvg THEN SvgSide ELSE 0

\* line 372
Disqualified(safeWidth, safeHeight) ==
    safeWidth < MinScoredSide \/ safeHeight < MinScoredSide

\* ratio * 40 is a whole number for this size
ExactRatio(width, height) ==
    Max(width, height) > 0 /\ (Min(width, height) * 40) % Max(width, height) = 0

\* scoreFaviconCandidate, lines 367-419, with the link's host as
\* targetHostname; the image sizes of the model have a whole ratio * 40
scoreFaviconCandidate(url, width, height) ==
    LET safeWidth == SafeSide(width, IsSvg(url))
        safeHeight == SafeSide(height, IsSvg(url))
        min == Min(safeWidth, safeHeight)
        max == Max(safeWidth, safeHeight)
    IN  IF Disqualified(safeWidth, safeHeight)
        THEN TooSmall
        ELSE min * 2 + (min * 40) \div max
             + (IF SameDomain(url) THEN 90 ELSE 0)
             + (IF NamedFavicon(url) THEN 16 ELSE 0)
             + (IF NamedTouchIcon(url) THEN 18 ELSE 0)
             + (IF NamedViteSvg(url) THEN 12 ELSE 0)
             + (IF IsSvg(url) THEN 6 ELSE 0)
             + (IF GoogleDomainUrl(url) THEN 24 ELSE 0)
             + (IF GstaticUrl(url) THEN 24 ELSE 0)
             - (IF GoogleDomain(url) THEN 20 ELSE 0)
             - (IF FromDuckDuckGo(url) THEN 70 ELSE 0)
             - (IF NamedFaviconIco(url) THEN 4 ELSE 0)

QualityFloor == 20
\* isLowQualityProviderFavicon, lines 447-458
isLowQualityProviderFavicon(url, width, height) ==
    LET minSide == Min(width, height)
    IN  IF minSide <= 0 THEN FALSE
        ELSE IF FromProvider(url) THEN minSide <= QualityFloor
        ELSE FALSE

\* loadImageDimensions: a probe that failed or timed out, or the image's size
FailedProbe == [ok |-> FALSE, width |-> 0, height |-> 0]
Loaded(width, height) == [ok |-> TRUE, width |-> width, height |-> height]

\* the loop of resolveBestFaviconUrl from candidate index on, lines 1464-1476
RECURSIVE BestFrom(_, _, _, _, _)
BestFrom(candidates, results, index, bestUrl, bestScore) ==
    IF index > Len(candidates) THEN bestUrl
    ELSE LET result == results[index]
             score == scoreFaviconCandidate(candidates[index], result.width,
                                            result.height)
         IN  IF ~result.ok
             THEN BestFrom(candidates, results, index + 1, bestUrl, bestScore)
             ELSE IF score > bestScore
             THEN BestFrom(candidates, results, index + 1, candidates[index], score)
             ELSE BestFrom(candidates, results, index + 1, bestUrl, bestScore)

RECURSIVE BestFromLastWins(_, _, _, _, _)
BestFromLastWins(candidates, results, index, bestUrl, bestScore) ==
    IF index > Len(candidates) THEN bestUrl
    ELSE LET result == results[index]
             score == scoreFaviconCandidate(candidates[index], result.width,
                                            result.height)
         IN  IF result.ok /\ score >= bestScore
             THEN BestFromLastWins(candidates, results, index + 1,
                                   candidates[index], score)
             ELSE BestFromLastWins(candidates, results, index + 1, bestUrl,
                                   bestScore)

resolveBestFaviconUrlLastWins(candidates, results) ==
    BestFromLastWins(candidates, results, 1, NoUrl, MinusInfinity)

\* resolveBestFaviconUrl, lines 1458-1479: results[i] is what the probe of
\* candidates[i] returned
resolveBestFaviconUrl(candidates, results) ==
    BestFrom(candidates, results, 1, NoUrl, MinusInfinity)

\* normalizeFaviconPrefs (storage): entries with an empty value are dropped
normalizeFaviconPrefs(raw) ==
    [k \in { x \in DOMAIN raw : Trim(raw[x]) # NoUrl } |-> Trim(raw[k])]

-----------------------------------------------------------------------------
(* Favicons: the preference map, its effects and its three writers *)

MaxFaviconInputs == 2

\* implicit runs in flight at once: the running one, and cancelled ones that
\* have not come back from their probe yet
MaxRuns == 2

\* persistFaviconChoices calls waiting for storage at once
MaxSaves == 2

\* user events of the refresh specification
MaxRefreshInputs == 3

LinkIds == { "a", "b" }
NewLinkId == "c"

\* what the probes of one resolveBestFaviconUrl call return: every probe
\* fails (the network is down), or every candidate loads as a 32px image
ProbeRuns(candidates) ==
    { [i \in DOMAIN candidates |-> FailedProbe],
      [i \in DOMAIN candidates |-> Loaded(32, 32)] }

\* the URLs resolveBestFaviconUrl can return for a link with this preference
PossibleBest(preferredFaviconUrl) ==
    LET candidates == getRenderableFaviconCandidates(preferredFaviconUrl)
    IN  { resolveBestFaviconUrl(candidates, results) :
            results \in ProbeRuns(candidates) }

Ids(ls) == { ls[i].id : i \in DOMAIN ls }

\* links.filter((link) => link.useSiteFavicon !== false), line 1490
RECURSIVE RefreshableLinks(_)
RefreshableLinks(ls) ==
    IF ls = <<>> THEN <<>>
    ELSE (IF Head(ls).useSiteFavicon THEN << Head(ls).id >> ELSE <<>>)
         \o RefreshableLinks(Tail(ls))

\* line 1530: the links the implicit resolution still has to resolve
RECURSIVE PendingLinks(_, _)
PendingLinks(ls, choices) ==
    IF ls = <<>> THEN <<>>
    ELSE (IF Head(ls).useSiteFavicon /\ Lookup(choices, Head(ls).id) = NoUrl
          THEN << Head(ls).id >> ELSE <<>>)
         \o PendingLinks(Tail(ls), choices)

\* a persistFaviconChoices call whose saveFaviconPrefs has not resolved yet
\* ls is the links of the render whose closure makes the call
Save(by, nextChoices, ls) ==
    [by |-> by, saved |-> normalizeFaviconPrefs(nextChoices), links |-> ls,
     cancelled |-> FALSE]

\* lines 960-969: the effect that drops the preferences of removed links
PruneNeeded(ls, choices) == ~(DOMAIN choices \subseteq Ids(ls))
PruneSavesNever(ls, choices) == <<>>

PruneSaves(ls, choices) ==
    IF PruneNeeded(ls, choices)
    THEN << Save("prune", Restrict(choices, Ids(ls)), ls) >>
    ELSE <<>>

\* the storage after the persistFaviconChoices calls of saves, in order
StoredAfter(stored, saves) ==
    IF saves = <<>> THEN stored ELSE saves[Len(saves)].saved

\* the cancelled flag of an implicit run, lines 1537, 1544, 1555
IsCancelled(run) == run.cancelled

\* lines 1560-1562: the cleanup of the implicit resolution effect
CleanedUp(runs) == { [run EXCEPT !.cancelled = TRUE] : run \in runs }

\* the same cleanup, for the runs that wait in persistFaviconChoices
CleanedUpSaves(saves) ==
    [i \in DOMAIN saves |->
        IF saves[i].by = "implicit" THEN [saves[i] EXCEPT !.cancelled = TRUE]
        ELSE saves[i]]

\* line 1526
GatedOff(state) == state = "loading"

\* lines 1525-1540: the implicit resolution effect starts a run
Started(ls, choices, state) ==
    IF GatedOff(state) \/ PendingLinks(ls, choices) = <<>>
    THEN {}
    ELSE { [cancelled |-> FALSE,
            links |-> ls,
            pendingLinks |-> PendingLinks(ls, choices),
            index |-> 1,
            nextChoices |-> choices,
            seen |-> choices,
            written |-> {},
            changed |-> FALSE] }

\* the implicit resolution effect after a render that changed links,
\* faviconChoiceByLink or faviconRefreshState
ImplicitEffect(runs, ls, choices, state) ==
    CleanedUp(runs) \cup Started(ls, choices, state)

\* the keys a writer set, as the last preference its path wrote for the link
Intended(before, nextChoices, written) ==
    [k \in DOMAIN before \cup written |->
        IF k \in written THEN nextChoices[k] ELSE before[k]]

\* State after the mount effect has loaded links and preferences (lines
\* 608-631) and the effects of that render have run
InitialLinks ==
    { << [id |-> "a", useSiteFavicon |-> TRUE],
         [id |-> "b", useSiteFavicon |-> TRUE] >> }

InitialPrefs == { EmptyMap, [k \in { "a" } |-> "old"] }

\* the scroll engine at rest on the first page of three
ScrollAtRest ==
    /\ settingsOpen = FALSE
    /\ columnStep = 140 /\ clientWidth = 270 /\ scrollWidth = 690
    /\ snapPoints = SnapPointsFor(140, 690, 270)
    /\ pageCount = Len(snapPoints)
    /\ scrollLeft = 0 /\ scrollTarget = 0 /\ activePage = 0
    /\ scrollRaf = 0 /\ rafQueue = {} /\ pageRaf = FALSE
    /\ now = 0 /\ lastWheelTs = 0 /\ lastWheelDelta = 0
    /\ inputs = 0
    /\ last = [op |-> "mount"]

FaviconInit ==
    /\ ScrollAtRest
    /\ links \in InitialLinks
    /\ savedFaviconPrefs \in InitialPrefs
    /\ faviconChoiceByLink = savedFaviconPrefs
    /\ StoreHolds(links)
    /\ faviconFallbackOffsetByLink = EmptyMap
    /\ faviconRefreshState = "idle"
    /\ faviconRefreshProgress = NoProgress
    /\ faviconFeedbackTimer = FALSE
    /\ refreshTask = NoRefresh
    /\ implicitRuns = Started(links, faviconChoiceByLink, "idle")
    /\ saveQueue = <<>>
    /\ progressLog = <<>>
    /\ intended = EmptyMap
    /\ failedResolution = {}
    /\ faviconInputs = MaxFaviconInputs
    /\ faviconLast = [op |-> "mount"]

-----------------------------------------------------------------------------
(* Favicons: bulk refresh *)

Progress(at, done, total) == [at |-> at, done |-> done, total |-> total]

FlushesEveryLink(task) == TRUE

\* lines 1497-1511: the refresh writes storage once, after its loop
FlushesAtEnd(task) == task.index >= Len(task.refreshableLinks)

\* refreshFavicons up to its first await, lines 1481-1500
RefreshRunningNever(state) == FALSE

\* line 1482
RefreshRunning(state) == state = "loading"

refreshFavicons ==
    LET refreshableLinks == RefreshableLinks(links)
        total == Len(refreshableLinks)
        nextChoices == faviconChoiceByLink
        saves == IF total = 0 THEN << Save("refresh", nextChoices, links) >>
                 ELSE <<>>
    IN  /\ faviconInputs > 0
        /\ faviconInputs' = faviconInputs - 1
        /\ ~RefreshRunning(faviconRefreshState)
        /\ faviconFeedbackTimer' = FALSE
        /\ faviconRefreshState' = "loading"
        /\ faviconRefreshProgress' = [done |-> 0, total |-> total]
        /\ progressLog' = << Progress("start", 0, total) >>
        /\ faviconFallbackOffsetByLink' = EmptyMap
        /\ refreshTask' = [pc |-> IF total = 0 THEN "saving" ELSE "resolving",
                           refreshableLinks |-> refreshableLinks,
                           index |-> 1,
                           nextChoices |-> nextChoices,
                           seen |-> faviconChoiceByLink,
                           written |-> {}]
        /\ saveQueue' = CleanedUpSaves(saveQueue) \o saves
        /\ Len(saveQueue') <= MaxSaves
        /\ savedFaviconPrefs' = StoredAfter(savedFaviconPrefs, saves)
        /\ implicitRuns' = ImplicitEffect(implicitRuns, links, faviconChoiceByLink,
                                          "loading")
        /\ Cardinality(implicitRuns') <= MaxRuns
        /\ failedResolution' = {}
        /\ UNCHANGED <<links, faviconChoiceByLink, intended, faviconLast,
                       scrolling, linkStore>>

ChosenAlways(nextChoices, id, bestUrl) == Put(nextChoices, id, bestUrl)

\* lines 1501-1503: a link without a working candidate keeps what it had
Chosen(nextChoices, id, bestUrl) ==
    IF bestUrl # NoUrl THEN Put(nextChoices, id, bestUrl) ELSE nextChoices

\* lines 1500-1505: resolveBestFaviconUrl has returned for one link
RefreshLink ==
    /\ refreshTask.pc = "resolving"
    /\ LET link == refreshTask.refreshableLinks[refreshTask.index]
           total == Len(refreshTask.refreshableLinks)
       IN  \E bestUrl \in PossibleBest(Lookup(refreshTask.seen, link)) :
             /\ refreshTask' =
                  [refreshTask EXCEPT
                     !.pc = "frame",
                     !.nextChoices = Chosen(refreshTask.nextChoices, link, bestUrl),
                     !.written = IF bestUrl # NoUrl
                                 THEN refreshTask.written \cup { link }
                                 ELSE refreshTask.written \ { link }]
             /\ faviconRefreshProgress' = [done |-> refreshTask.index, total |-> total]
             /\ progressLog' = Append(progressLog,
                                      Progress("link", refreshTask.index, total))
    /\ UNCHANGED <<links, faviconChoiceByLink, savedFaviconPrefs,
                   faviconFallbackOffsetByLink, faviconRefreshState,
                   faviconFeedbackTimer, implicitRuns, saveQueue, intended,
                   failedResolution,
                   faviconInputs, faviconLast, scrolling, linkStore>>

\* lines 1506-1511: the frame the loop waits for has come; after the last
\* link, persistFaviconChoices(nextChoices) is called
RefreshFrame ==
    /\ refreshTask.pc = "frame"
    /\ LET isLast == refreshTask.index >= Len(refreshTask.refreshableLinks)
           saves == IF FlushesAtEnd(refreshTask)
                    THEN << Save("refresh", refreshTask.nextChoices, links) >>
                    ELSE <<>>
       IN  /\ refreshTask' = IF isLast
                             THEN [refreshTask EXCEPT !.pc = "saving"]
                             ELSE [refreshTask EXCEPT !.pc = "resolving",
                                                      !.index = @ + 1]
           /\ saveQueue' = saveQueue \o saves
           /\ Len(saveQueue') <= MaxSaves
           /\ savedFaviconPrefs' = StoredAfter(savedFaviconPrefs, saves)
           /\ intended' = IF isLast
                          THEN Intended(intended, refreshTask.nextChoices,
                                        refreshTask.written)
                          ELSE intended
           /\ failedResolution' = failedResolution
    /\ UNCHANGED <<links, faviconChoiceByLink, faviconFallbackOffsetByLink,
                   faviconRefreshState, faviconRefreshProgress,
                   faviconFeedbackTimer, implicitRuns, progressLog,
                   faviconInputs, faviconLast, scrolling, linkStore>>

\* saveFaviconPrefs has resolved: persistFaviconChoices sets the state (line
\* 1362); for the refresh, lines 1512-1522 follow; then the effects of the
\* render run
SaveResolved ==
    /\ saveQueue # <<>>
    /\ LET save == Head(saveQueue)
           byRefresh == save.by = "refresh"
           total == Len(refreshTask.refreshableLinks)
           state == IF byRefresh THEN "done" ELSE faviconRefreshState
           saves == PruneSaves(links, save.saved)
       IN  /\ faviconChoiceByLink' = save.saved
           /\ faviconRefreshState' = state
           /\ faviconRefreshProgress' =
                IF byRefresh THEN [done |-> total, total |-> total]
                ELSE faviconRefreshProgress
           /\ progressLog' = IF byRefresh
                             THEN Append(progressLog, Progress("done", total, total))
                             ELSE progressLog
           /\ faviconFeedbackTimer' = IF byRefresh THEN TRUE ELSE faviconFeedbackTimer
           /\ refreshTask' = IF byRefresh THEN NoRefresh ELSE refreshTask
           /\ saveQueue' = CleanedUpSaves(Tail(saveQueue)) \o saves
           /\ Len(saveQueue') <= MaxSaves
           /\ savedFaviconPrefs' = StoredAfter(savedFaviconPrefs, saves)
           /\ implicitRuns' = ImplicitEffect(implicitRuns, links, save.saved, state)
           /\ Cardinality(implicitRuns') <= MaxRuns
           /\ faviconLast' = IF byRefresh
                             THEN [op |-> "refreshed",
                                   refreshableLinks |-> refreshTask.refreshableLinks,
                                   before |-> refreshTask.seen,
                                   written |-> refreshTask.written]
                             ELSE faviconLast
    /\ UNCHANGED <<links, faviconFallbackOffsetByLink, intended,
                   failedResolution, faviconInputs,
                   scrolling, linkStore>>

\* lines 1518-1522: the 900ms feedback timer fires
FeedbackTimer ==
    /\ faviconFeedbackTimer
    /\ faviconFeedbackTimer' = FALSE
    /\ faviconRefreshState' = "idle"
    /\ faviconRefreshProgress' = NoProgress
    /\ implicitRuns' = ImplicitEffect(implicitRuns, links, faviconChoiceByLink, "idle")
    /\ Cardinality(implicitRuns') <= MaxRuns
    /\ saveQueue' = CleanedUpSaves(saveQueue)
    /\ UNCHANGED <<links, faviconChoiceByLink, savedFaviconPrefs,
                   faviconFallbackOffsetByLink, refreshTask, progressLog,
                   intended, failedResolution, faviconInputs, faviconLast,
                   scrolling, linkStore>>

-----------------------------------------------------------------------------
(* Favicons: the tile's image events *)

ImageSizes == { <<0, 0>>, <<16, 16>>, <<20, 20>>, <<21, 24>>, <<32, 32>> }

\* the tile renders an <img> for the link (lines 1912-1923)
ShowsFavicon(id) ==
    \E i \in DOMAIN links : links[i].id = id /\ links[i].useSiteFavicon

OffsetOf(offsets, id) == IF Has(offsets, id) THEN offsets[id] ELSE 0

\* lines 1917-1921, 0-based
ResolvedIndex(offsets, id, candidates) ==
    Min(OffsetOf(offsets, id), Max(0, Len(candidates) - 1))

AfterErrorUncapped(offsets, id, candidateCount) ==
    Put(offsets, id, OffsetOf(offsets, id) + 1)

\* the updater of onFaviconError, lines 1410-1418
AfterError(offsets, id, candidateCount) ==
    LET currentOffset == OffsetOf(offsets, id)
        maxOffset == Max(0, candidateCount - 1)
        nextOffset == Min(currentOffset + 1, maxOffset)
    IN  IF nextOffset = currentOffset THEN offsets
        ELSE Put(offsets, id, nextOffset)

\* onFaviconError, called by the <img> of a tile
onFaviconError(id) ==
    LET candidates == getRenderableFaviconCandidates(Lookup(faviconChoiceByLink, id))
    IN  /\ faviconInputs > 0
        /\ faviconInputs' = faviconInputs - 1
        /\ ShowsFavicon(id)
        /\ faviconFallbackOffsetByLink' =
             AfterError(faviconFallbackOffsetByLink, id, Len(candidates))
        /\ faviconLast' = [op |-> "onFaviconError", link |-> id,
                           candidateCount |-> Len(candidates),
                           offset |-> OffsetOf(faviconFallbackOffsetByLink, id)]
        /\ UNCHANGED <<links, faviconChoiceByLink, savedFaviconPrefs,
                       faviconRefreshState, faviconRefreshProgress,
                       faviconFeedbackTimer, refreshTask, implicitRuns, saveQueue,
                       progressLog, intended, failedResolution, scrolling, linkStore>>

PromotesAlways(hadFallback, previousChoice, resolvedFaviconUrl) == TRUE

\* lines 1446-1452: the load is worth persisting
Promotes(hadFallback, previousChoice, resolvedFaviconUrl) ==
    /\ ~(~hadFallback /\ previousChoice = NoUrl)
    /\ previousChoice # resolvedFaviconUrl

\* onFaviconLoad, called by the <img> of a tile with the image's size
onFaviconLoad(id, width, height) ==
    LET candidates == getRenderableFaviconCandidates(Lookup(faviconChoiceByLink, id))
        resolvedFaviconUrl ==
            candidates[ResolvedIndex(faviconFallbackOffsetByLink, id, candidates) + 1]
        rejected == isLowQualityProviderFavicon(resolvedFaviconUrl, width, height)
        hadFallback == OffsetOf(faviconFallbackOffsetByLink, id) > 0
        previousChoice == Lookup(faviconChoiceByLink, id)
        persists == ~rejected /\ Promotes(hadFallback, previousChoice, resolvedFaviconUrl)
        nextChoices == Put(faviconChoiceByLink, id, resolvedFaviconUrl)
        saves == IF persists THEN << Save("promotion", nextChoices, links) >>
                 ELSE <<>>
    IN  /\ faviconInputs > 0
        /\ faviconInputs' = faviconInputs - 1
        /\ ShowsFavicon(id)
        /\ faviconFallbackOffsetByLink' =
             IF rejected
             THEN AfterError(faviconFallbackOffsetByLink, id, Len(candidates))
             ELSE Without(faviconFallbackOffsetByLink, id)
        /\ saveQueue' = saveQueue \o saves
        /\ Len(saveQueue') <= MaxSaves
        /\ savedFaviconPrefs' = StoredAfter(savedFaviconPrefs, saves)
        /\ intended' = IF persists THEN Intended(intended, nextChoices, { id })
                       ELSE intended
        /\ failedResolution' = failedResolution
        /\ faviconLast' = [op |-> "onFaviconLoad", link |-> id,
                           url |-> resolvedFaviconUrl,
                           width |-> width, height |-> height,
                           candidateCount |-> Len(candidates),
                           offset |-> OffsetOf(faviconFallbackOffsetByLink, id),
                           previousChoice |-> previousChoice]
        /\ UNCHANGED <<links, faviconChoiceByLink, faviconRefreshState,
                       faviconRefreshProgress, faviconFeedbackTimer, refreshTask,
                       implicitRuns, progressLog, scrolling, linkStore>>

-----------------------------------------------------------------------------
(* Favicons: implicit background resolution *)

\* lines 1543-1557: resolveBestFaviconUrl has returned for one pending link
\* of a run; the run goes on to its next check of the cancelled flag
ImplicitStep(run) ==
    /\ run \in implicitRuns
    /\ LET link == run.pendingLinks[run.index]
           isLast == run.index >= Len(run.pendingLinks)
       IN  \E bestUrl \in PossibleBest(Lookup(run.seen, link)) :
             LET sets == bestUrl # NoUrl /\ Lookup(run.nextChoices, link) # bestUrl
                 nextChoices == IF sets THEN Put(run.nextChoices, link, bestUrl)
                                ELSE run.nextChoices
                 written == IF sets THEN run.written \cup { link } ELSE run.written
                 changed == run.changed \/ sets
                 persists == isLast /\ ~IsCancelled(run) /\ changed
                 saves == IF persists THEN << Save("implicit", nextChoices, run.links) >>
                          ELSE <<>>
             IN  /\ implicitRuns' =
                      IF isLast \/ IsCancelled(run)
                      THEN implicitRuns \ { run }
                      ELSE (implicitRuns \ { run }) \cup
                             { [run EXCEPT !.index = @ + 1,
                                           !.nextChoices = nextChoices,
                                           !.written = written,
                                           !.changed = changed] }
                 /\ saveQueue' = saveQueue \o saves
                 /\ Len(saveQueue') <= MaxSaves
                 /\ savedFaviconPrefs' = StoredAfter(savedFaviconPrefs, saves)
                 /\ intended' = IF persists
                                THEN Intended(intended, nextChoices, written)
                                ELSE intended
                 /\ failedResolution' =
                      IF bestUrl = NoUrl THEN failedResolution \cup { link }
                      ELSE failedResolution \ { link }
    /\ UNCHANGED <<links, faviconChoiceByLink, faviconFallbackOffsetByLink,
                   faviconRefreshState, faviconRefreshProgress,
                   faviconFeedbackTimer, refreshTask, progressLog,
                   faviconInputs, faviconLast, scrolling, linkStore>>

-----------------------------------------------------------------------------
(* Favicons: edits of the link set *)

\* persistLinks, lines 1354-1358: saveLinks, setLinks(saved), then the effects
\* of the render
LinksSet(nextLinks) ==
    LET saved == saveLinks(Ordered(nextLinks))
        saves == PruneSaves(nextLinks, faviconChoiceByLink)
    IN  /\ faviconInputs > 0
        /\ faviconInputs' = faviconInputs - 1
        /\ storedLinks' = saved
        /\ meta' = meta
        /\ links' = Displayed(saved)
        /\ saveQueue' = CleanedUpSaves(saveQueue) \o saves
        /\ Len(saveQueue') <= MaxSaves
        /\ savedFaviconPrefs' = StoredAfter(savedFaviconPrefs, saves)
        /\ implicitRuns' = ImplicitEffect(implicitRuns, nextLinks,
                                          faviconChoiceByLink, faviconRefreshState)
        /\ Cardinality(implicitRuns') <= MaxRuns
        /\ UNCHANGED <<faviconChoiceByLink, faviconFallbackOffsetByLink,
                       faviconRefreshState, faviconRefreshProgress,
                       faviconFeedbackTimer, refreshTask, progressLog, intended,
                       failedResolution,
                       faviconLast, scrolling>>

\* onDeleteLink, line 1717
onDeleteLink(id) ==
    /\ id \in Ids(links)
    /\ id # NewLinkId
    /\ LinksSet(SelectSeq(links, LAMBDA link : link.id # id))

\* saveDraftLink adding a link, lines 1675-1689
saveDraftLink(useSiteFavicon) ==
    /\ NewLinkId \notin Ids(links)
    /\ LinksSet(Append(links, [id |-> NewLinkId, useSiteFavicon |-> useSiteFavicon]))

FaviconNext ==
    \/ refreshFavicons
    \/ RefreshLink
    \/ RefreshFrame
    \/ SaveResolved
    \/ FeedbackTimer
    \/ \E id \in LinkIds \cup { NewLinkId } : onFaviconError(id)
    \/ \E id \in LinkIds \cup { NewLinkId } : onFaviconLoad(id, 32, 32)
    \/ \E run \in implicitRuns : ImplicitStep(run)
    \/ \E id \in LinkIds : onDeleteLink(id)
    \/ \E useSiteFavicon \in BOOLEAN : saveDraftLink(useSiteFavicon)

FaviconSpec == FaviconInit /\ [][FaviconNext]_vars

\* two links that have their preferences when the page has loaded
RefreshInit ==
    /\ ScrollAtRest
    /\ links \in InitialLinks
    /\ savedFaviconPrefs = [k \in LinkIds |-> IF k = "a" THEN "old" ELSE "png"]
    /\ faviconChoiceByLink = savedFaviconPrefs
    /\ StoreHolds(links)
    /\ faviconFallbackOffsetByLink = EmptyMap
    /\ faviconRefreshState = "idle"
    /\ faviconRefreshProgress = NoProgress
    /\ faviconFeedbackTimer = FALSE
    /\ refreshTask = NoRefresh
    /\ implicitRuns = Started(links, faviconChoiceByLink, "idle")
    /\ saveQueue = <<>>
    /\ progressLog = <<>>
    /\ intended = EmptyMap
    /\ failedResolution = {}
    /\ faviconInputs = MaxRefreshInputs
    /\ faviconLast = [op |-> "mount"]

\* the refresh with the link edits, the implicit resolution and the saves,
\* the tiles' images left aside
RefreshNext ==
    \/ refreshFavicons
    \/ RefreshLink
    \/ RefreshFrame
    \/ SaveResolved
    \/ FeedbackTimer
    \/ \E run \in implicitRuns : ImplicitStep(run)
    \/ \E id \in LinkIds : onDeleteLink(id)
    \/ \E useSiteFavicon \in BOOLEAN : saveDraftLink(useSiteFavicon)

\* probes end (by load, error or the 2200ms timeout of line 431), frames
\* come, storage answers and timers fire
FairRefreshSpec ==
    /\ RefreshInit
    /\ [][RefreshNext]_vars
    /\ WF_vars(RefreshLink)
    /\ WF_vars(RefreshFrame)
    /\ WF_vars(SaveResolved)
    /\ WF_vars(FeedbackTimer)
    /\ WF_vars(\E run \in implicitRuns : ImplicitStep(run))

-----------------------------------------------------------------------------
(* Claims *)

NonDecreasing(points) ==
    \A i \in 1 .. Len(points) - 1 : points[i] <= points[i + 1]

\* C1: for a positive finite column step and scrollWidth >= clientWidth >= 0,
\* the sequence recalcSnapPoints produces is non-decreasing, starts at 0 and
\* ends at exactly scrollWidth - clientWidth; two consecutive points can be
\* equal only where the last point is the final clamp.
C1_SnapPointInvariants ==
    (last.op = "recalcSnapPoints" /\ columnStep # NotFinite /\ columnStep > 0) =>
        /\ Len(snapPoints) >= 1
        /\ snapPoints[1] = 0
        /\ snapPoints[Len(snapPoints)] = Px(scrollWidth - clientWidth)
        /\ NonDecreasing(snapPoints)
        /\ \A i \in 1 .. Len(snapPoints) - 2 : snapPoints[i] < snapPoints[i + 1]

\* a geometry whose last page is cut short by the final clamp
C1_Witness ==
    /\ last.op = "recalcSnapPoints"
    /\ columnStep = 140 /\ clientWidth = 270 /\ scrollWidth = 690
    /\ snapPoints = <<0, 28000, 42000>>

\* C2: when scrollWidth <= clientWidth, or the column step is not finite or
\* not positive, recalcSnapPoints leaves exactly <<0>> as the snap points,
\* pageCount 1 and activePage 0.
C2_SinglePageCollapse ==
    (/\ last.op = "recalcSnapPoints"
     /\ \/ scrollWidth <= clientWidth
        \/ ~(columnStep # NotFinite)
        \/ columnStep <= 0) =>
        /\ snapPoints = <<0>>
        /\ pageCount = 1
        /\ activePage = 0

\* an infinite column step over an overflowing viewport
C2_Witness ==
    /\ last.op = "recalcSnapPoints"
    /\ columnStep = NotFinite
    /\ scrollWidth > clientWidth
    /\ snapPoints = <<0>> /\ pageCount = 1 /\ activePage = 0

AtOrAfter(points, left) == { i \in 0 .. Len(points) - 1 : Nth(points, i) >= left }
AtOrBefore(points, left) == { i \in 0 .. Len(points) - 1 : Nth(points, i) <= left }
Lowest(S) == CHOOSE i \in S : \A j \in S : i <= j
Highest(S) == CHOOSE i \in S : \A j \in S : i >= j
Nearest(points, left) ==
    { i \in 0 .. Len(points) - 1 :
        \A j \in 0 .. Len(points) - 1 :
            Abs(Nth(points, i) - left) <= Abs(Nth(points, j) - left) }

\* the index the directional rule names
DirectionalRule(points, left, direction) ==
    IF direction > 0
    THEN IF AtOrAfter(points, left) # {} THEN Lowest(AtOrAfter(points, left))
         ELSE Len(points) - 1
    ELSE IF direction < 0
    THEN IF AtOrBefore(points, left) # {} THEN Highest(AtOrBefore(points, left))
         ELSE 0
    ELSE Lowest(Nearest(points, left))

\* C3: findDirectionalSnapIndex(x, d) returns, for d > 0, the index of the
\* first snap point >= x, or the last index if there is none; for d < 0 the
\* index of the last snap point <= x, or 0 if there is none; for d = 0 the
\* nearest index.  For points 0, 100, 200, 300 and x = 150 that is 2, 1 and 1.
C3_DirectionalSnapIndex ==
    last.op = "findDirectionalSnapIndex" =>
        /\ last.result = DirectionalRule(snapPoints, last.left, last.direction)
        /\ (snapPoints = <<0, 10000, 20000, 30000>> /\ last.left = 15000) =>
               last.result = (IF last.direction > 0 THEN 2 ELSE 1)

\* the example of the rule: x = 150 between 100 and 200, going forward
C3_Witness ==
    /\ last.op = "findDirectionalSnapIndex"
    /\ snapPoints = <<0, 10000, 20000, 30000>>
    /\ last.left = 15000 /\ last.direction = 1 /\ last.result = 2

\* C4: findNearestSnapIndex(x) returns an index whose snap point is at the
\* least absolute distance from x, and the lowest such index.
C4_NearestSnapIndex ==
    last.op = "findNearestSnapIndex" =>
        /\ last.result \in Nearest(snapPoints, last.left)
        /\ \A i \in Nearest(snapPoints, last.left) : last.result <= i

\* x = 150 is as near to 100 as to 200: the lower index is returned
C4_Witness ==
    /\ last.op = "findNearestSnapIndex"
    /\ snapPoints = <<0, 10000, 20000, 30000>>
    /\ last.left = 15000 /\ last.result = 1


\* the radii as the rule states them, in hundredths of a pixel
RuleRadius(cs) == IF cs * 22 > 2800 THEN cs * 22 ELSE 2800
RuleNearestPoint(points, x) == Nth(points, Lowest(Nearest(points, x)))
RuleDirectionalPoint(points, x, d) == Nth(points, DirectionalRule(points, x, d))
NearestGap == Abs(RuleNearestPoint(snapPoints, last.freeTarget) - last.freeTarget)
DirectionalGap ==
    Abs(RuleDirectionalPoint(snapPoints, last.freeTarget, last.direction)
        - last.freeTarget)
Handled == last.op = "wheel" /\ last.path = "handled"

\* C5: after a handled wheel event, with magnetRadius = max(28, 0.22 *
\* columnStep), the target is the nearest snap point if freeTarget is within
\* magnetRadius of it, else the directional snap point if freeTarget is
\* within 1.5 * magnetRadius of that, else freeTarget itself.
C5_MagneticSnapping ==
    Handled =>
        scrollTarget =
            IF NearestGap <= RuleRadius(columnStep)
            THEN RuleNearestPoint(snapPoints, last.freeTarget)
            ELSE IF 2 * DirectionalGap <= 3 * RuleRadius(columnStep)
            THEN RuleDirectionalPoint(snapPoints, last.freeTarget, last.direction)
            ELSE last.freeTarget

\* the directional point wins where it is not the nearest one: 318 lies 38px
\* after 280 and 42px before 360
C5_Witness ==
    /\ Handled
    /\ snapPoints = <<0, 28000, 36000>>
    /\ last.freeTarget = 31800 /\ last.direction = 1
    /\ scrollTarget = 36000

\* C6 as claimed: with columnStep = 140, a freeTarget 50px from the
\* directional snap point and more than 30.8px from the nearest one snaps to
\* the directional point.
C6_Original ==
    (Handled /\ columnStep = 140 /\ NearestGap > 3080 /\ DirectionalGap = 5000) =>
        scrollTarget = RuleDirectionalPoint(snapPoints, last.freeTarget, last.direction)

\* C6, amended: with columnStep = 140 (magnetRadius 30.8px, directional
\* radius 46.2px) a freeTarget within 30.8px of the nearest snap point snaps
\* to it; failing that, one within 46.2px of the directional snap point (40px
\* away, say) snaps to the directional point; one beyond both radii (50px from
\* the directional point, say) is the target unmodified.
C6_MagnetRadiiAt140 ==
    (Handled /\ columnStep = 140) =>
        /\ NearestGap <= 3080 =>
               scrollTarget = RuleNearestPoint(snapPoints, last.freeTarget)
        /\ (NearestGap > 3080 /\ DirectionalGap <= 4620) =>
               scrollTarget = RuleDirectionalPoint(snapPoints, last.freeTarget,
                                                   last.direction)
        /\ (NearestGap > 3080 /\ DirectionalGap > 4620) =>
               scrollTarget = last.freeTarget
        /\ (NearestGap > 3080 /\ DirectionalGap = 5000) =>
               scrollTarget = last.freeTarget

\* 240 lies 40px before 280: the wheel event going forward snaps to 280
C6_Witness ==
    /\ Handled /\ columnStep = 140
    /\ last.freeTarget = 24000 /\ last.direction = 1
    /\ NearestGap > 3080 /\ DirectionalGap = 4000
    /\ scrollTarget = 28000


\* the index scrollToPage is claimed to clamp to, within the rendered pages
IndexWithinPages == Max(0, Min(last.pageIndex, last.pages - 1))
AtRest == rafQueue = {} /\ ~pageRaf

IndexWithinPoints == Max(0, Min(last.pageIndex, Len(snapPoints) - 1))

\* scrollToPage against the snap points: the target is the clamped snap
\* point, and with no further input the scroll comes to rest on it
ScrollToPageSettles ==
    \A n \in 1 .. MaxInputs :
        (last.op = "scrollToPage" /\ inputs = n) ~>
            \/ inputs > n
            \/ /\ last.op = "scrollToPage"
               /\ AtRest
               /\ scrollLeft = Nth(snapPoints, IndexWithinPoints)
               /\ scrollTarget = scrollLeft
               /\ activePage = IndexWithinPoints

\* C8 as claimed: a second scrollToPage(k), made when the first has settled,
\* leaves activePage = k and the offsets unchanged and performs no further
\* animation frame.
C8_Original ==
    (last.op = "scrollToPage" /\ last.settled) =>
        /\ activePage = IndexWithinPoints
        /\ scrollLeft = Nth(snapPoints, IndexWithinPoints)
        /\ scrollTarget = scrollLeft
        /\ rafQueue = {}

AfterSettledCall == last.op = "scrollToPage" /\ last.settled

\* a step in which a scheduled frame callback of the scroll loops ran
FrameStep ==
    /\ inputs' = inputs
    /\ <<now, lastWheelTs, rafQueue, scrollRaf, scrollLeft>>' #
           <<now, lastWheelTs, rafQueue, scrollRaf, scrollLeft>>

\* C8, amended: a second scrollToPage(k), made when the first has settled,
\* leaves activePage = k and currentOffset and targetOffset unchanged; it
\* requests one frame of the page-jump loop, and that frame moves nothing and
\* requests no further frame.
C8_SecondCallIdempotent ==
    /\ [](AfterSettledCall =>
            /\ activePage = IndexWithinPoints
            /\ scrollLeft = Nth(snapPoints, IndexWithinPoints)
            /\ scrollTarget = scrollLeft
            /\ rafQueue \subseteq { [id |-> 1, fn |-> "animate"] }
            /\ scrollRaf = Cardinality(rafQueue))
    /\ [][(AfterSettledCall /\ rafQueue # {} /\ FrameStep) =>
            (rafQueue' = {} /\ scrollRaf' = 0 /\ scrollLeft' = scrollLeft)]_vars

\* the second call's one frame has run: at rest on page 1
C8_Witness ==
    /\ AfterSettledCall
    /\ last.pageIndex = 1 /\ activePage = 1
    /\ scrollLeft = 28000 /\ scrollTarget = 28000
    /\ rafQueue = {} /\ scrollRaf = 0

\* C9: at most one scroll animation frame is scheduled, and scrollRafRef
\* names it; a wheel event or scrollToPage call that meets a pending frame
\* leaves the frame queue as it is.
C9_OneLoop ==
    /\ [](/\ Cardinality(rafQueue) <= 1
          /\ scrollRaf = 0 <=> rafQueue = {}
          /\ \A c \in rafQueue : c.id = scrollRaf)
    /\ [][(/\ scrollRaf # 0
           /\ inputs' = inputs + 1
           /\ last'.op \in { "wheel", "scrollToPage" }) =>
            (rafQueue' = rafQueue /\ scrollRaf' = scrollRaf)]_vars

\* a handled wheel event met the pending frame of a page jump
C9_Witness ==
    /\ Handled /\ last.loop
    /\ rafQueue = { [id |-> 1, fn |-> "animate"] }
    /\ scrollRaf = 1

NearSnapPoint(left) ==
    \E i \in 1 .. Len(snapPoints) : Abs(snapPoints[i] - left) <= Epsilon

\* C10: after wheel events and scrollToPage calls, once no frame is scheduled
\* any more the offset is within 0.4px of a snap point: a free target is
\* re-snapped before the loop stops.
C10_RestsOnSnapPoint ==
    rafQueue = {} => NearSnapPoint(scrollLeft)

NoOverflow == scrollWidth <= clientWidth

\* C11 as claimed: while the viewport has no overflow, pageCount is 1,
\* activePage is 0, and a wheel event or scrollToPage call schedules no
\* animation frame.
C11_Original ==
    /\ [](NoOverflow => pageCount = 1 /\ activePage = 0)
    /\ [][(NoOverflow /\ inputs' = inputs + 1
           /\ last'.op \in { "wheel", "scrollToPage" }) =>
            (rafQueue' = rafQueue /\ scrollRaf' = scrollRaf)]_vars

\* C11, amended: while scrollWidth <= clientWidth, pageCount is 1 and
\* activePage is 0; a wheel event schedules no frame; a scrollToPage call sets
\* the target to 0 and, when no frame is pending, schedules one frame of its
\* loop, which leaves the offset at 0 and schedules no further frame.
C11_NoOverflow ==
    /\ [](NoOverflow => pageCount = 1 /\ activePage = 0 /\ scrollLeft = 0)
    /\ [][(NoOverflow /\ inputs' = inputs + 1 /\ last'.op = "wheel") =>
            (rafQueue' = rafQueue /\ scrollRaf' = scrollRaf
             /\ scrollTarget' = scrollTarget)]_vars
    /\ [][(NoOverflow /\ inputs' = inputs + 1 /\ last'.op = "scrollToPage") =>
            /\ scrollTarget' = 0
            /\ IF scrollRaf = 0
               THEN rafQueue' = rafQueue \cup { [id |-> scrollRaf', fn |-> "animate"] }
               ELSE rafQueue' = rafQueue /\ scrollRaf' = scrollRaf]_vars
    /\ [][(NoOverflow /\ FrameStep /\ scrollTarget = 0
           /\ \E c \in rafQueue : c.fn = "animate") =>
            (rafQueue' = {} /\ scrollRaf' = 0 /\ scrollLeft' = 0)]_vars

\* a wheel event met a viewport without overflow, after a page jump's frame
C11_Witness ==
    /\ NoOverflow
    /\ inputs = 2
    /\ last.op = "wheel" /\ last.path = "single"
    /\ rafQueue = {} /\ scrollRaf = 0
    /\ pageCount = 1 /\ activePage = 0

\* nothing of the favicon machinery is in flight
Quiescent ==
    /\ saveQueue = <<>>
    /\ refreshTask.pc = "none"
    /\ implicitRuns = {}

\* C12: once the writes of bulk refresh, implicit resolution and render-time
\* promotion have completed, every link still present has, in memory and in
\* storage, the preference that the last write targeting it gave it.
C12_NoLostUpdate ==
    Quiescent =>
        \A id \in DOMAIN intended \cap Ids(links) :
            /\ Lookup(faviconChoiceByLink, id) = intended[id]
            /\ Lookup(savedFaviconPrefs, id) = intended[id]

\* the progress values set after each link, line 1505
LinkProgress == SelectSeq(progressLog, LAMBDA p : p.at = "link")

\* the step in which the refresh's save resolves and the refresh is done
RefreshCompletes == refreshTask.pc = "saving" /\ refreshTask'.pc = "none"

\* C13: a bulk refresh over N refreshable links sets progress {done, total}
\* with total = N throughout and done = 1, 2, ..., N in order, one after each
\* link; when it completes the preference map holds the URL found for each
\* refreshed link with a working candidate, the entries it had before for the
\* other keys, and nothing else: no entry for a link without a working
\* candidate, and no empty value.
C13_RefreshProgressAndResult ==
    /\ [](/\ \A i \in DOMAIN progressLog :
                progressLog[i].total = progressLog[1].total
          /\ \A i \in DOMAIN LinkProgress : LinkProgress[i].done = i
          /\ refreshTask.pc # "none" =>
                /\ progressLog[1].total = Len(refreshTask.refreshableLinks)
                /\ \A i \in DOMAIN refreshTask.refreshableLinks :
                      refreshTask.refreshableLinks[i] \in Ids(links) =>
                        ShowsFavicon(refreshTask.refreshableLinks[i])
                /\ Len(LinkProgress) =
                      IF refreshTask.pc = "resolving" THEN refreshTask.index - 1
                      ELSE IF refreshTask.pc = "frame" THEN refreshTask.index
                      ELSE Len(refreshTask.refreshableLinks)
          /\ faviconRefreshState = "loading" <=> refreshTask.pc # "none")
    /\ [][RefreshCompletes =>
            LET total == Len(refreshTask.refreshableLinks)
                before == refreshTask.seen
                written == refreshTask.written
            IN  /\ Len(LinkProgress) = total
                /\ faviconRefreshProgress' = [done |-> total, total |-> total]
                /\ DOMAIN faviconChoiceByLink' = DOMAIN before \cup written
                /\ \A id \in DOMAIN faviconChoiceByLink' :
                      /\ faviconChoiceByLink'[id] # NoUrl
                      /\ id \notin written => faviconChoiceByLink'[id] = before[id]
                      /\ id \in written =>
                            faviconChoiceByLink'[id] \in
                              PossibleBest(Lookup(before, id)) \ { NoUrl }]_vars

\* a refresh of two links is done: b got a URL, a found none and kept "old"
C13_Witness ==
    /\ faviconLast.op = "refreshed"
    /\ faviconLast.refreshableLinks = << "a", "b" >>
    /\ faviconLast.written = { "b" }
    /\ faviconLast.before = [k \in { "a" } |-> "old"]
    /\ refreshTask.pc = "none"
    /\ faviconRefreshState = "done"
    /\ faviconChoiceByLink = [k \in { "a", "b" } |-> IF k = "a" THEN "old" ELSE "png"]
    /\ LinkProgress = << Progress("link", 1, 2), Progress("link", 2, 2) >>

\* the persistFaviconChoices calls of the refresh that wait for storage
RefreshSaves(saves) == SelectSeq(saves, LAMBDA save : save.by = "refresh")

\* the step in which the refresh calls persistFaviconChoices
RefreshFlushes == Len(RefreshSaves(saveQueue')) > Len(RefreshSaves(saveQueue))

\* a step of the refresh between its start and its flush
RefreshGoesOn ==
    /\ refreshTask.pc \in { "resolving", "frame" }
    /\ refreshTask' # refreshTask
    /\ refreshTask'.pc \in { "resolving", "frame" }

\* C14: the refresh calls the persistence write once, after the frame that
\* follows its last link, with the map it has accumulated; its steps before
\* that leave storage alone, so that storage changes during a refresh only by
\* that flush or by the write of another writer.
C14_FlushOnce ==
    /\ [](Len(RefreshSaves(saveQueue)) = IF refreshTask.pc = "saving" THEN 1 ELSE 0)
    /\ [][RefreshFlushes =>
            /\ refreshTask'.pc = "saving"
            /\ refreshTask'.index >= Len(refreshTask'.refreshableLinks)
            /\ Len(LinkProgress) = Len(refreshTask'.refreshableLinks)
            /\ savedFaviconPrefs' = refreshTask'.nextChoices
            /\ saveQueue'[Len(saveQueue')].saved = refreshTask'.nextChoices]_vars
    /\ [][RefreshGoesOn => savedFaviconPrefs' = savedFaviconPrefs]_vars
    /\ [][(refreshTask.pc \in { "resolving", "frame" }
           /\ savedFaviconPrefs' # savedFaviconPrefs) =>
            \/ RefreshFlushes
            \/ /\ Len(saveQueue') > 0
               /\ saveQueue'[Len(saveQueue')].by \in { "promotion", "prune" }]_vars

\* the refresh of two links has flushed a map that differs from the one it
\* started from, and waits for storage
C14_Witness ==
    /\ refreshTask.pc = "saving"
    /\ Len(refreshTask.refreshableLinks) = 2
    /\ refreshTask.written # {}
    /\ savedFaviconPrefs = refreshTask.nextChoices
    /\ savedFaviconPrefs # refreshTask.seen
    /\ Len(RefreshSaves(saveQueue)) = 1

\* the step in which the save at the head of the queue resolves and
\* persistFaviconChoices sets faviconChoiceByLink
SaveResolves ==
    /\ saveQueue # <<>>
    /\ saveQueue' # saveQueue
    /\ Len(saveQueue') <= Len(saveQueue)
    /\ faviconInputs' = faviconInputs
    /\ ~(faviconFeedbackTimer /\ ~faviconFeedbackTimer')

\* the step in which an implicit run calls persistFaviconChoices
ImplicitPersists ==
    Len(SelectSeq(saveQueue', LAMBDA save : save.by = "implicit")) >
        Len(SelectSeq(saveQueue, LAMBDA save : save.by = "implicit"))

\* the step starts an implicit run
ImplicitStarts == \E run \in implicitRuns' \ implicitRuns : ~run.cancelled

\* C15: while faviconRefreshState is "loading" no implicit run is started,
\* and no implicit run, one started before the refresh included, writes the
\* preference map in storage or in memory.
C15_GatedDuringRefresh ==
    /\ [][ImplicitStarts => faviconRefreshState' # "loading"]_vars
    /\ [][ImplicitPersists => faviconRefreshState # "loading"]_vars
    /\ [][(SaveResolves /\ Head(saveQueue).by = "implicit") =>
            faviconRefreshState # "loading"]_vars

\* the run that the step takes out of implicitRuns, or moves on
Stepped(run) == run \in implicitRuns /\ run \notin implicitRuns'

\* C16: an implicit run whose link set has changed is cancelled; a cancelled
\* run does not call the persistence write, and no write of a run changes the
\* preference map once the link set has changed; a run that is not cancelled
\* writes once at most, and only a map that differs from the one it started
\* from.
C16_CancelledOnLinkChange ==
    /\ [](\A run \in implicitRuns : run.links # links => run.cancelled)
    /\ [](\A i \in DOMAIN saveQueue :
            (saveQueue[i].by = "implicit" /\ saveQueue[i].links # links) =>
                saveQueue[i].cancelled)
    /\ [][ImplicitPersists =>
            /\ \A run \in implicitRuns :
                  Stepped(run) => /\ ~run.cancelled
                                  /\ run.links = links
                                  /\ saveQueue'[Len(saveQueue')].saved # run.seen
                                  /\ \A other \in implicitRuns' :
                                        other.seen # run.seen \/ other.links # run.links
                                        \/ other.cancelled
            /\ Len(saveQueue') = Len(saveQueue) + 1]_vars
    /\ [][(SaveResolves /\ Head(saveQueue).by = "implicit") =>
            Head(saveQueue).links = links]_vars

\* ---------------------------------------------------------------------
\* resolveBestFaviconUrl on its own: the preference of the link and what each
\* probe returns are drawn at the start, then the function is applied

ProbeSizes == { <<8, 8>>, <<16, 16>>, <<32, 32>>, <<35, 35>>, <<64, 32>> }

\* what loadImageDimensions can return, lines 421-441
ProbeResults == { FailedProbe } \cup { Loaded(size[1], size[2]) : size \in ProbeSizes }

ResolveInit ==
    /\ ScrollAtRest
    /\ links = << [id |-> "a", useSiteFavicon |-> TRUE] >>
    /\ faviconChoiceByLink \in { EmptyMap, [a |-> "old"], [a |-> "png"] }
    /\ savedFaviconPrefs = faviconChoiceByLink
    /\ StoreHolds(links)
    /\ faviconFallbackOffsetByLink = EmptyMap
    /\ faviconRefreshState = "idle"
    /\ faviconRefreshProgress = NoProgress
    /\ faviconFeedbackTimer = FALSE
    /\ refreshTask = NoRefresh
    /\ implicitRuns = {}
    /\ saveQueue = <<>>
    /\ progressLog = <<>>
    /\ intended = EmptyMap
    /\ failedResolution = {}
    /\ faviconInputs = 0
    /\ \E results \in [1 .. Len(getRenderableFaviconCandidates(
                                    Lookup(faviconChoiceByLink, "a"))) -> ProbeResults] :
         faviconLast = [op |-> "probes", results |-> results]

CallResolveBestFaviconUrl ==
    /\ faviconLast.op = "probes"
    /\ LET candidates == getRenderableFaviconCandidates(Lookup(faviconChoiceByLink, "a"))
       IN  faviconLast' = [op |-> "resolveBestFaviconUrl",
                           candidates |-> candidates,
                           results |-> faviconLast.results,
                           result |-> resolveBestFaviconUrl(candidates,
                                                            faviconLast.results)]
    /\ UNCHANGED <<scrolling, linkStore, links, faviconChoiceByLink, savedFaviconPrefs,
                   faviconFallbackOffsetByLink, faviconRefreshState,
                   faviconRefreshProgress, faviconFeedbackTimer, refreshTask,
                   implicitRuns, saveQueue, progressLog, intended,
                   failedResolution, faviconInputs>>

ResolveNext == CallResolveBestFaviconUrl

ResolveSpec == ResolveInit /\ [][ResolveNext]_vars

ProbedOk(call) == { i \in DOMAIN call.candidates : call.results[i].ok }

ProbeScore(call, i) ==
    scoreFaviconCandidate(call.candidates[i], call.results[i].width,
                          call.results[i].height)

\* C17: resolveBestFaviconUrl returns null when no probe succeeds; otherwise
\* it returns the successfully probed candidate whose score no other
\* successful candidate exceeds and no earlier successful candidate equals;
\* failed probes before or after it do not stop the scan.
C17_BestIsFirstOfHighest ==
    faviconLast.op = "resolveBestFaviconUrl" =>
        LET call == faviconLast
        IN  IF ProbedOk(call) = {}
            THEN call.result = NoUrl
            ELSE \E i \in ProbedOk(call) :
                   /\ call.result = call.candidates[i]
                   /\ \A j \in ProbedOk(call) :
                        /\ ProbeScore(call, j) <= ProbeScore(call, i)
                        /\ j < i => ProbeScore(call, j) < ProbeScore(call, i)

\* the first probe fails, two later candidates tie at the top with a score
\* above the too-small one, and the earlier of the two is returned
C17_Witness ==
    /\ faviconLast.op = "resolveBestFaviconUrl"
    /\ ~faviconLast.results[1].ok
    /\ \E i, j \in ProbedOk(faviconLast) :
         /\ i < j
         /\ ProbeScore(faviconLast, i) = ProbeScore(faviconLast, j)
         /\ ProbeScore(faviconLast, i) > TooSmall
         /\ \A k \in ProbedOk(faviconLast) :
              ProbeScore(faviconLast, k) <= ProbeScore(faviconLast, i)
         /\ faviconLast.result = faviconLast.candidates[i]

\* ---------------------------------------------------------------------
\* One tile: a single link whose <img> fires load and error events of any
\* size, with the refresh, the implicit resolution and the saves going on

MaxTileInputs == 4

TileInit ==
    /\ ScrollAtRest
    /\ links = << [id |-> "a", useSiteFavicon |-> TRUE] >>
    /\ savedFaviconPrefs \in InitialPrefs
    /\ faviconChoiceByLink = savedFaviconPrefs
    /\ StoreHolds(links)
    /\ faviconFallbackOffsetByLink = EmptyMap
    /\ faviconRefreshState = "idle"
    /\ faviconRefreshProgress = NoProgress
    /\ faviconFeedbackTimer = FALSE
    /\ refreshTask = NoRefresh
    /\ implicitRuns = Started(links, faviconChoiceByLink, "idle")
    /\ saveQueue = <<>>
    /\ progressLog = <<>>
    /\ intended = EmptyMap
    /\ failedResolution = {}
    /\ faviconInputs = MaxTileInputs
    /\ faviconLast = [op |-> "mount"]

TileNext ==
    \/ refreshFavicons
    \/ RefreshLink
    \/ RefreshFrame
    \/ SaveResolved
    \/ FeedbackTimer
    \/ onFaviconError("a")
    \/ \E size \in ImageSizes : onFaviconLoad("a", size[1], size[2])
    \/ \E run \in implicitRuns : ImplicitStep(run)

TileSpec == TileInit /\ [][TileNext]_vars

\* the candidates the tile of a link renders from, lines 1913-1916
CandidatesOf(id) == getRenderableFaviconCandidates(Lookup(faviconChoiceByLink, id))

\* an <img> error event has been delivered by the step
ErrorDelivered ==
    /\ faviconInputs' # faviconInputs
    /\ faviconLast'.op = "onFaviconError"
    /\ faviconRefreshState' = faviconRefreshState
    /\ links' = links

StartsAtZero == faviconLast.op = "mount" => faviconFallbackOffsetByLink = EmptyMap

AtMostOneUp ==
    \A id \in Ids(links) :
        OffsetOf(faviconFallbackOffsetByLink', id) <=
            OffsetOf(faviconFallbackOffsetByLink, id) + 1

CappedAtFailure ==
    ErrorDelivered =>
        LET id == faviconLast'.link
            count == faviconLast'.candidateCount
            before == OffsetOf(faviconFallbackOffsetByLink, id)
            after == OffsetOf(faviconFallbackOffsetByLink', id)
        IN  /\ count = Len(CandidatesOf(id))
            /\ after = Min(before + 1, Max(0, count - 1))

\* C18 as stated: the offset of a link starts at 0, no step raises it by more
\* than 1, a failure moves it to min(offset + 1, length - 1), and in every
\* state it is at most the length of the link's candidate list less one.
C18_Original ==
    /\ [](StartsAtZero)
    /\ [][AtMostOneUp]_vars
    /\ [][CappedAtFailure]_vars
    /\ [](\A id \in Ids(links) :
            OffsetOf(faviconFallbackOffsetByLink, id) <=
                Max(0, Len(CandidatesOf(id)) - 1))

\* C18: the offset of a link starts at 0, no step raises it by more than 1, a
\* failure moves it to min(offset + 1, length - 1) for the candidate list
\* rendered at that failure (two failures of 3 candidates give 2 and a third
\* leaves 2), and the index the tile renders never exceeds length - 1.
C18_OffsetCapped ==
    /\ [](StartsAtZero)
    /\ [][AtMostOneUp]_vars
    /\ [][CappedAtFailure]_vars
    /\ [](\A id \in Ids(links) :
            ResolvedIndex(faviconFallbackOffsetByLink, id, CandidatesOf(id)) <=
                Max(0, Len(CandidatesOf(id)) - 1))

\* a failure of a tile with 3 candidates that was at offset 2 and stays there
C18_Witness ==
    /\ faviconLast.op = "onFaviconError"
    /\ faviconLast.candidateCount = 3
    /\ faviconLast.offset = 2
    /\ OffsetOf(faviconFallbackOffsetByLink, faviconLast.link) = 2

\* an <img> load event has been delivered by the step
LoadDelivered ==
    /\ faviconInputs' # faviconInputs
    /\ faviconLast'.op = "onFaviconLoad"
    /\ faviconRefreshState' = faviconRefreshState
    /\ links' = links

\* the step has called persistFaviconChoices with url as the preference of id
Persisted(id, url) ==
    /\ Len(saveQueue') = Len(saveQueue) + 1
    /\ saveQueue'[Len(saveQueue')].by = "promotion"
    /\ Lookup(saveQueue'[Len(saveQueue')].saved, id) = url
    /\ Lookup(savedFaviconPrefs', id) = url

NothingPersisted ==
    /\ saveQueue' = saveQueue
    /\ savedFaviconPrefs' = savedFaviconPrefs

AcceptedLoad ==
    /\ LoadDelivered
    /\ ~isLowQualityProviderFavicon(faviconLast'.url, faviconLast'.width,
                                    faviconLast'.height)

\* C19 as stated: an accepted load clears the link's offset, and persists the
\* resolved URL when the offset was above 0 or the URL is not the link's
\* preference (a link without a preference included).
C19_Original ==
    [][AcceptedLoad =>
        /\ OffsetOf(faviconFallbackOffsetByLink', faviconLast'.link) = 0
        /\ (faviconLast'.offset > 0 \/ faviconLast'.previousChoice # faviconLast'.url)
             => Persisted(faviconLast'.link, faviconLast'.url)]_vars

\* C19: an accepted load clears the link's offset; it persists the resolved
\* URL as the link's preference when the offset was above 0, or when the link
\* has a preference and the URL differs from it, and persists nothing
\* otherwise.
C19_PromotesOnLoad ==
    [][AcceptedLoad =>
        /\ OffsetOf(faviconFallbackOffsetByLink', faviconLast'.link) = 0
        /\ IF \/ faviconLast'.offset > 0
              \/ /\ faviconLast'.previousChoice # NoUrl
                 /\ faviconLast'.previousChoice # faviconLast'.url
           THEN Persisted(faviconLast'.link, faviconLast'.url)
           ELSE NothingPersisted]_vars

\* an accepted load after a fallback has cleared the offset and its write of
\* the resolved URL is the latest in storage
C19_Witness ==
    /\ faviconLast.op = "onFaviconLoad"
    /\ faviconLast.offset > 0
    /\ ~isLowQualityProviderFavicon(faviconLast.url, faviconLast.width,
                                    faviconLast.height)
    /\ OffsetOf(faviconFallbackOffsetByLink, faviconLast.link) = 0
    /\ saveQueue # <<>>
    /\ saveQueue[Len(saveQueue)].by = "promotion"
    /\ Lookup(savedFaviconPrefs, faviconLast.link) = faviconLast.url
    /\ faviconLast.url # faviconLast.previousChoice

\* C20: a load of a provider URL whose image has a minimum side below 20 is
\* handled as a failure (the offset advances as for an error and nothing is
\* persisted); with a minimum side of 20 or more it is accepted (the offset
\* is cleared).
C20_QualityFloor ==
    [][(LoadDelivered /\ FromProvider(faviconLast'.url)) =>
        LET id == faviconLast'.link
            minSide == Min(faviconLast'.width, faviconLast'.height)
        IN  IF minSide < QualityFloor
            THEN /\ faviconFallbackOffsetByLink' =
                      AfterError(faviconFallbackOffsetByLink, id,
                                 faviconLast'.candidateCount)
                 /\ NothingPersisted
            ELSE OffsetOf(faviconFallbackOffsetByLink', id) = 0]_vars

\* the tile shows the glyph of the link, not an <img> (lines 1922-1923, 1947)
UseFallbackIcon(id) == ~ShowsFavicon(id) \/ Len(CandidatesOf(id)) = 0

\* the error of the last candidate of a tile has been delivered: the offset
\* was at the end of the list, which earlier failures had brought it to
LastCandidateFailed ==
    /\ faviconLast.op = "onFaviconError"
    /\ faviconLast.offset >= faviconLast.candidateCount - 1
    /\ faviconLast.candidateCount = Len(CandidatesOf(faviconLast.link))

\* C21: once the last of a link's candidates has failed after all the others,
\* the tile of the link shows the fallback glyph instead of an image.
C21_GlyphAfterAllFailed ==
    LastCandidateFailed => UseFallbackIcon(faviconLast.link)

\* a probe of the link at the run's index is started by the step
ProbeStarted(run) == run \in implicitRuns' /\ run \notin implicitRuns /\ ~run.cancelled

\* C22: the implicit resolution starts no probe of a link it has found
\* nothing for, until the user asks for a bulk refresh.
C22_NoAutomaticRetry ==
    [][\A run \in implicitRuns' :
          ProbeStarted(run) => run.pendingLinks[run.index] \notin failedResolution]_vars

\* ---------------------------------------------------------------------
\* The load at mount: storage holds preferences and links, the mount effect
\* (lines 606-631) reads them, and the implicit resolution and the saves go on

StoredIds == { "a", "b" }
StoredUrls == { "old", "gurl", "gdom" }

\* what browser.storage can hold for the preferences when the page opens
StoredPrefs ==
    UNION { [ids -> StoredUrls] : ids \in SUBSET StoredIds }

\* what getLinks can return
StoredLinks ==
    { << [id |-> "a", useSiteFavicon |-> TRUE],
         [id |-> "b", useSiteFavicon |-> site] >> : site \in BOOLEAN }
    \cup { << [id |-> "a", useSiteFavicon |-> TRUE] >> }

\* lines 620-622
SanitizedKeepsAll(savedFaviconPrefsRead) == savedFaviconPrefsRead
Sanitized(savedFaviconPrefsRead) ==
    Restrict(savedFaviconPrefsRead,
             { id \in DOMAIN savedFaviconPrefsRead :
                 ~isLowQualityGoogleDomainFavicon(savedFaviconPrefsRead[id]) })

LoadInit ==
    /\ ScrollAtRest
    /\ links = <<>>
    /\ \E ls \in StoredLinks : storedLinks = saveLinks(Ordered(ls))
    /\ meta = [linksSeeded |-> TRUE]
    /\ savedFaviconPrefs \in StoredPrefs
    /\ faviconChoiceByLink = EmptyMap
    /\ faviconFallbackOffsetByLink = EmptyMap
    /\ faviconRefreshState = "idle"
    /\ faviconRefreshProgress = NoProgress
    /\ faviconFeedbackTimer = FALSE
    /\ refreshTask = NoRefresh
    /\ implicitRuns = {}
    /\ saveQueue = <<>>
    /\ progressLog = <<>>
    /\ intended = EmptyMap
    /\ failedResolution = {}
    /\ faviconInputs = 0
    /\ faviconLast = [op |-> "boot"]

\* the promises of the mount effect have resolved (line 611): lines 620-629,
\* then the effects of the render (prune, implicit resolution)
MountLoaded ==
    /\ faviconLast.op = "boot"
    /\ LET got == getLinks(storedLinks, meta)
           savedLinks == Displayed(got.result)
       IN
         LET read == normalizeFaviconPrefs(savedFaviconPrefs)
             sanitizedFaviconPrefs == Sanitized(read)
             writes == Cardinality(DOMAIN sanitizedFaviconPrefs) #
                           Cardinality(DOMAIN read)
             stored == IF writes THEN normalizeFaviconPrefs(sanitizedFaviconPrefs)
                       ELSE savedFaviconPrefs
             saves == PruneSaves(savedLinks, sanitizedFaviconPrefs)
         IN  /\ links' = savedLinks
             /\ storedLinks' = got.stored
             /\ meta' = got.meta
             /\ faviconChoiceByLink' = sanitizedFaviconPrefs
             /\ savedFaviconPrefs' = StoredAfter(stored, saves)
             /\ saveQueue' = saves
             /\ implicitRuns' = ImplicitEffect({}, savedLinks,
                                               sanitizedFaviconPrefs, "idle")
             /\ faviconLast' = [op |-> "load", read |-> read, writes |-> writes,
                                stored |-> stored]
    /\ UNCHANGED <<faviconFallbackOffsetByLink, faviconRefreshState,
                   faviconRefreshProgress, faviconFeedbackTimer, refreshTask,
                   progressLog, intended, failedResolution, faviconInputs,
                   scrolling>>

LoadNext ==
    \/ MountLoaded
    \/ SaveResolved
    \/ \E run \in implicitRuns : ImplicitStep(run)

LoadSpec == LoadInit /\ [][LoadNext]_vars

\* the mount effect's continuation is the step
Loads == faviconLast.op = "boot" /\ faviconLast'.op = "load"

\* the links that had a preference in storage and have none after the load
LostEntry(load, ls, choices) ==
    { id \in Ids(ls) : Has(load.read, id) /\ ~Has(choices, id) }

\* the links the implicit resolution is working for
PendingNow(runs) ==
    UNION { { run.pendingLinks[i] : i \in DOMAIN run.pendingLinks } :
              run \in { r \in runs : ~r.cancelled } }

LoadDropsLowQuality(load, choices) ==
    /\ DOMAIN choices = { id \in DOMAIN load.read : ~GoogleDomain(load.read[id]) }
    /\ \A id \in DOMAIN choices : choices[id] = load.read[id]
    /\ load.writes <=> \E id \in DOMAIN load.read : GoogleDomain(load.read[id])
    /\ load.stored = IF load.writes THEN choices ELSE load.read

\* C23 as stated: after the load the preference map holds the stored entries
\* that are not of the Google domain= form, the mount effect has written the
\* map back exactly when it dropped an entry, and every link that lost its
\* entry is pending for the implicit resolution.
C23_Original ==
    [][Loads =>
        /\ LoadDropsLowQuality(faviconLast', faviconChoiceByLink')
        /\ LostEntry(faviconLast', links', faviconChoiceByLink')
             \subseteq PendingNow(implicitRuns')]_vars

\* C23: the same, where the links that become pending are those that lost
\* their entry and have the site favicon enabled.
C23_LoadSanitizes ==
    [][Loads =>
        /\ LoadDropsLowQuality(faviconLast', faviconChoiceByLink')
        /\ \A id \in LostEntry(faviconLast', links', faviconChoiceByLink') :
             (\E i \in DOMAIN links' : links'[i].id = id /\ links'[i].useSiteFavicon)
                 <=> id \in PendingNow(implicitRuns')]_vars

\* a load that dropped the domain= preference of a link, kept the domain_url=
\* preference of the other, wrote the map back and made the first link pending
C23_Witness ==
    /\ faviconLast.op = "load"
    /\ faviconLast.writes
    /\ faviconLast.read = [a |-> "gdom", b |-> "gurl"]
    /\ faviconChoiceByLink = [b |-> "gurl"]
    /\ savedFaviconPrefs = [b |-> "gurl"]
    /\ "a" \in PendingNow(implicitRuns)

\* ---------------------------------------------------------------------
\* getRenderableFaviconCandidates on its own: the stored preferences of two
\* links are read as the program reads them, and the tiles call the function

MaxCandidateCalls == 2

\* what storage can hold as the preference of a link
RawPreferences == { "", "  ", " ico ", "ico", "png", "ddg", "old", "svg", "gurl" }

CandidatesInit ==
    /\ ScrollAtRest
    /\ links = << [id |-> "a", useSiteFavicon |-> TRUE],
                  [id |-> "b", useSiteFavicon |-> TRUE] >>
    /\ savedFaviconPrefs \in [LinkIds -> RawPreferences]
    /\ faviconChoiceByLink = normalizeFaviconPrefs(savedFaviconPrefs)
    /\ StoreHolds(links)
    /\ faviconFallbackOffsetByLink = EmptyMap
    /\ faviconRefreshState = "idle"
    /\ faviconRefreshProgress = NoProgress
    /\ faviconFeedbackTimer = FALSE
    /\ refreshTask = NoRefresh
    /\ implicitRuns = {}
    /\ saveQueue = <<>>
    /\ progressLog = <<>>
    /\ intended = EmptyMap
    /\ failedResolution = {}
    /\ faviconInputs = MaxCandidateCalls
    /\ faviconLast = [op |-> "mount"]

\* the render of the tile of a link, lines 1913-1916
CallGetRenderableFaviconCandidates(id) ==
    /\ faviconInputs > 0
    /\ faviconInputs' = faviconInputs - 1
    /\ LET preferredFaviconUrl == Lookup(faviconChoiceByLink, id)
       IN  faviconLast' =
             [op |-> "getRenderableFaviconCandidates",
              preferredFaviconUrl |-> preferredFaviconUrl,
              result |-> getRenderableFaviconCandidates(preferredFaviconUrl),
              earlier |->
                 IF /\ faviconLast.op = "getRenderableFaviconCandidates"
                    /\ faviconLast.preferredFaviconUrl = preferredFaviconUrl
                 THEN << faviconLast.result >> ELSE <<>>]
    /\ UNCHANGED <<scrolling, linkStore, links, faviconChoiceByLink, savedFaviconPrefs,
                   faviconFallbackOffsetByLink, faviconRefreshState,
                   faviconRefreshProgress, faviconFeedbackTimer, refreshTask,
                   implicitRuns, saveQueue, progressLog, intended,
                   failedResolution>>

CandidatesNext == \E id \in LinkIds : CallGetRenderableFaviconCandidates(id)

CandidatesSpec == CandidatesInit /\ [][CandidatesNext]_vars

Elements(list) == { list[i] : i \in DOMAIN list }

\* C24: the list getRenderableFaviconCandidates returns holds no URL twice,
\* holds the base candidates other than the preference in their order, starts
\* with the preference when there is one, is no longer than the base list when
\* the preference is a base candidate, and is the same list at a second call
\* with the same preference.
C24_RenderableCandidates ==
    faviconLast.op = "getRenderableFaviconCandidates" =>
        LET preferred == faviconLast.preferredFaviconUrl
            result == faviconLast.result
            base == getFaviconCandidates
        IN  /\ \A i, j \in DOMAIN result : result[i] = result[j] => i = j
            /\ SelectSeq(result, LAMBDA url : url # preferred) =
                 SelectSeq(base, LAMBDA url : url # preferred)
            /\ Elements(result) = Elements(base) \cup ({ preferred } \ { NoUrl })
            /\ preferred # NoUrl => result[1] = preferred
            /\ preferred \in Elements(base) => Len(result) = Len(base)
            /\ \A i \in DOMAIN faviconLast.earlier : faviconLast.earlier[i] = result

\* a second call with a preference that is the second base candidate
C24_Witness ==
    /\ faviconLast.op = "getRenderableFaviconCandidates"
    /\ faviconLast.preferredFaviconUrl = "png"
    /\ faviconLast.result = << "png", "ico", "ddg" >>
    /\ faviconLast.earlier = << faviconLast.result >>

\* ---------------------------------------------------------------------
\* scoreFaviconCandidate on its own: a URL and the size a probe reports are
\* drawn at the start, then the function is applied

ScoredUrls ==
    { "ico", "png", "ddg", "old", "svg", "vite", "gurl", "gstatic", "gdom",
      "same", "sub", "parent", "far" }

ScoredSides == { 0, 11, 12, 13, 16, 32, 64 }

ScoreInit ==
    /\ ScrollAtRest
    /\ links = << [id |-> "a", useSiteFavicon |-> TRUE] >>
    /\ faviconChoiceByLink = EmptyMap
    /\ savedFaviconPrefs = EmptyMap
    /\ StoreHolds(links)
    /\ faviconFallbackOffsetByLink = EmptyMap
    /\ faviconRefreshState = "idle"
    /\ faviconRefreshProgress = NoProgress
    /\ faviconFeedbackTimer = FALSE
    /\ refreshTask = NoRefresh
    /\ implicitRuns = {}
    /\ saveQueue = <<>>
    /\ progressLog = <<>>
    /\ intended = EmptyMap
    /\ failedResolution = {}
    /\ faviconInputs = 0
    /\ \E url \in ScoredUrls, width \in ScoredSides, height \in ScoredSides :
         /\ width = 0 \/ height = 0 \/ ExactRatio(width, height)
         /\ faviconLast = [op |-> "probe", url |-> url, width |-> width,
                           height |-> height]

CallScoreFaviconCandidate ==
    /\ faviconLast.op = "probe"
    /\ faviconLast' = [faviconLast EXCEPT
                         !.op = "scoreFaviconCandidate"] @@
                      [result |-> scoreFaviconCandidate(faviconLast.url,
                                                        faviconLast.width,
                                                        faviconLast.height)]
    /\ UNCHANGED <<scrolling, linkStore, links, faviconChoiceByLink, savedFaviconPrefs,
                   faviconFallbackOffsetByLink, faviconRefreshState,
                   faviconRefreshProgress, faviconFeedbackTimer, refreshTask,
                   implicitRuns, saveQueue, progressLog, intended,
                   failedResolution, faviconInputs>>

ScoreNext == CallScoreFaviconCandidate

ScoreSpec == ScoreInit /\ [][ScoreNext]_vars

\* C25: scoreFaviconCandidate returns -1000 for a URL that is not an SVG when
\* both sides are below 12 (11x11, and 0x0), does not at 12x12, and gives an
\* SVG that reports no size the score of the same URL at 64x64.
C25_SentinelAndVector ==
    faviconLast.op = "scoreFaviconCandidate" =>
        LET call == faviconLast
        IN  /\ (~IsSvg(call.url) /\ call.width < 12 /\ call.height < 12)
                  => call.result = -1000
            /\ (call.width = 12 /\ call.height = 12) => call.result # -1000
            /\ (IsSvg(call.url) /\ call.width = 0 /\ call.height = 0)
                  => /\ call.result # -1000
                     /\ call.result = 64 * 2 + 40
                          + (IF SameDomain(call.url) THEN 90 ELSE 0)
                          + (IF NamedFavicon(call.url) THEN 16 ELSE 0)
                          + (IF NamedViteSvg(call.url) THEN 12 ELSE 0)
                          + 6

\* origin/favicon.svg reporting no size: 128 + 40 + 90 + 16 + 6
C25_Witness ==
    /\ faviconLast.op = "scoreFaviconCandidate"
    /\ faviconLast.url = "svg"
    /\ faviconLast.width = 0 /\ faviconLast.height = 0
    /\ faviconLast.result = 280

\* the sizes that have the larger side of the call, a larger smaller side,
\* and are not disqualified
LargerMinSide(call) ==
    { size \in ScoredSides \X ScoredSides :
        /\ ExactRatio(size[1], size[2])
        /\ Max(size[1], size[2]) = Max(call.width, call.height)
        /\ Min(size[1], size[2]) > Min(call.width, call.height)
        /\ scoreFaviconCandidate(call.url, size[1], size[2]) # TooSmall }

\* C26: with the URL and the larger side the same, a result that is not
\* disqualified scores strictly below every result with a larger smaller
\* side; and /icon.png on the link's host, on a subdomain of it or on its
\* parent domain scores 90 above /icon.png on an unrelated host.
C26_SizeAndSameDomain ==
    (faviconLast.op = "scoreFaviconCandidate" /\ faviconLast.result # TooSmall
     /\ faviconLast.width > 0 /\ faviconLast.height > 0) =>
        LET call == faviconLast
        IN  /\ \A size \in LargerMinSide(call) :
                 scoreFaviconCandidate(call.url, size[1], size[2]) > call.result
            /\ call.url \in { "same", "sub", "parent" } =>
                 call.result =
                     scoreFaviconCandidate("far", call.width, call.height) + 90

\* /icon.png on a subdomain at 16x32 scores 142, 90 above the unrelated host,
\* and below the same URL at 32x32
C26_Witness ==
    /\ faviconLast.op = "scoreFaviconCandidate"
    /\ faviconLast.url = "sub"
    /\ faviconLast.width = 16 /\ faviconLast.height = 32
    /\ faviconLast.result = 142
    /\ <<32, 32>> \in LargerMinSide(faviconLast)

\* the refresh in progress goes on, or completes, in the step
RefreshAdvances ==
    \/ RefreshCompletes
    \/ /\ refreshTask'.pc # "none"
       /\ refreshTask'.refreshableLinks = refreshTask.refreshableLinks
       /\ refreshTask'.seen = refreshTask.seen
       /\ refreshTask'.index >= refreshTask.index
       /\ refreshTask'.index = refreshTask.index =>
            ~(refreshTask.pc = "frame" /\ refreshTask'.pc = "resolving")
       /\ refreshTask.pc = "saving" => refreshTask' = refreshTask

StateGoes(from, to) == faviconRefreshState = from /\ faviconRefreshState' = to

RefreshRuns ==
    /\ [](faviconRefreshState = "loading" <=> refreshTask.pc # "none")
    /\ [][refreshTask.pc # "none" => RefreshAdvances]_vars
    /\ (faviconRefreshState = "loading" ~> faviconRefreshState = "done")

\* C27 as stated: one refresh at a time, which nothing restarts or cancels,
\* which ends in "done", and the state only goes from idle to loading, from
\* loading to done and from done to idle.
C27_Original ==
    /\ RefreshRuns
    /\ [][\/ StateGoes("idle", "loading")
          \/ StateGoes("loading", "done")
          \/ StateGoes("done", "idle")]_faviconRefreshState

\* C27: one refresh at a time, which nothing restarts or cancels, which ends
\* in "done", and the state only goes from idle to loading, from loading to
\* done, and from done to idle or, at a new refresh request, to loading.
C27_RefreshRunsToCompletion ==
    /\ RefreshRuns
    /\ [][\/ StateGoes("idle", "loading")
          \/ StateGoes("loading", "done")
          \/ StateGoes("done", "idle")
          \/ StateGoes("done", "loading")]_faviconRefreshState

\* a refresh of two links has completed and the state is idle again, with a
\* link set that is no longer the one it started with
C27_Witness ==
    /\ faviconLast.op = "refreshed"
    /\ Len(faviconLast.refreshableLinks) = 2
    /\ Len(links) # 2
    /\ faviconRefreshState = "idle"
    /\ ~faviconFeedbackTimer
    /\ refreshTask.pc = "none"

-----------------------------------------------------------------------------
(* The wheel events that are not handled *)

\* the step is a wheel event
WheelStep == inputs' = inputs + 1 /\ last'.op = "wheel"

\* the scroll state a wheel event can move
WheelScrollState == <<scrollTarget, scrollLeft, lastWheelTs, lastWheelDelta,
                      snapPoints, scrollRaf, rafQueue, pageRaf>>

\* C28: a wheel event that arrives while the settings overlay is open, or
\* whose normalized delta is below 0.5px, leaves the target, the offset, the
\* wheel timestamp and delta, the snap points and the scheduled frames as
\* they were; with the overlay closed and content that does not overflow the
\* viewport, it sets pageCount to 1 and activePage to 0 and changes nothing
\* else of the scroll state.
C28_IgnoredWheel ==
    [][WheelStep =>
        /\ (settingsOpen \/ Abs(NormalizedDelta(last'.event, clientWidth)) < MinDelta)
               => UNCHANGED WheelScrollState
        /\ (~settingsOpen /\ scrollWidth <= clientWidth)
               => /\ pageCount' = 1
                  /\ activePage' = 0
                  /\ UNCHANGED WheelScrollState
                  /\ UNCHANGED <<settingsOpen, geometry>>]_vars

\* a sub-threshold wheel event has arrived while a wheel loop was running
C28_Witness ==
    /\ last.op = "wheel"
    /\ last.path = "noise"
    /\ scrollRaf # 0
    /\ lastWheelDelta # 0

-----------------------------------------------------------------------------
(* The wheel events that are handled *)

\* the event of the step passes the three early returns
HandledStep ==
    /\ WheelStep
    /\ ~settingsOpen
    /\ scrollWidth > clientWidth + OverflowSlack
    /\ Abs(NormalizedDelta(last'.event, clientWidth)) >= MinDelta

\* C29: a handled wheel event computes freeTarget as baseTarget + 0.16 *
\* normalizedDelta kept within 0 and the maximum offset, where baseTarget is
\* the target of the running animation when a frame of the loop is scheduled
\* and the live scroll offset otherwise; it records the time and the delta of
\* the event, and sets activePage to the index of a snap point nearest to the
\* new target.
C29_HandledWheel ==
    [][HandledStep =>
        LET normalizedDelta == NormalizedDelta(last'.event, clientWidth)
            baseTarget == IF scrollRaf # 0 THEN scrollTarget ELSE scrollLeft
            maxOffset == Px(scrollWidth - clientWidth)
            moved == baseTarget + Scaled(normalizedDelta, 16)
        IN  /\ last'.path = "handled"
            /\ last'.freeTarget =
                   IF moved < 0 THEN 0
                   ELSE IF moved > maxOffset THEN maxOffset
                   ELSE moved
            /\ lastWheelTs' = now
            /\ lastWheelDelta' = normalizedDelta
            /\ activePage' \in 0 .. Len(snapPoints') - 1
            /\ \A i \in 0 .. Len(snapPoints') - 1 :
                   Abs(Nth(snapPoints', activePage') - scrollTarget')
                       <= Abs(Nth(snapPoints', i) - scrollTarget')]_vars

\* a wheel event handled while the loop was running, whose free target was
\* cut at the maximum offset, at a time after the start
C29_Witness ==
    /\ Handled
    /\ last.loop
    /\ last.freeTarget = MaxLeft(scrollWidth, clientWidth)
    /\ lastWheelTs > 0
    /\ activePage = Len(snapPoints) - 1

-----------------------------------------------------------------------------
(* Termination of the animation loops *)

\* a frame of one of the two loops runs
LoopTick ==
    /\ inputs' = inputs
    /\ scrollRaf # 0
    /\ ~(pageRaf /\ ~pageRaf')

\* |targetOffset - currentOffset|
Remaining(target, left) == Abs(target - left)

\* what a tick does: with 0.4px or more to go the offset moves toward the
\* target by the loop's factor of the distance, the distance gets strictly
\* smaller and the offset does not pass the target; with less to go the
\* offset becomes the target
TickConverges ==
    LoopTick =>
        LET delta == scrollTarget - scrollLeft
            factor == IF \E c \in rafQueue : c.fn = "animate" THEN 22 ELSE 26
        IN  IF Abs(delta) >= Epsilon
            THEN /\ scrollLeft' = scrollLeft + Scaled(delta, factor)
                 /\ Remaining(scrollTarget', scrollLeft') < Remaining(scrollTarget, scrollLeft)
                 /\ Sign(scrollTarget' - scrollLeft') \in { 0, Sign(delta) }
            ELSE scrollLeft' = scrollTarget

\* C30: with no new input every animation loop terminates: each tick with
\* 0.4px or more to go strictly reduces |targetOffset - currentOffset| (by
\* 0.26 of it in the wheel loop, 0.22 in the page-jump loop) without passing
\* the target, a tick with less to go sets the offset to the target, and once
\* the inputs have stopped the program reaches a state with no frame of a
\* loop scheduled.
C30_LoopsTerminate ==
    /\ [][TickConverges]_vars
    /\ (inputs = MaxInputs) ~> (scrollRaf = 0)

-----------------------------------------------------------------------------
(* The wheel loop at its target *)

\* a frame of the wheel loop runs with less than 0.4px to go
WheelLoopArrives ==
    /\ LoopTick
    /\ \E c \in rafQueue : c.fn = "animateScroll"
    /\ Abs(scrollTarget - scrollLeft) < Epsilon

\* the snap point the re-snap is claimed to pick: the directional one for the
\* sign of the last wheel delta, the nearest one when that sign is 0
ResnapPoint ==
    IF Sign(lastWheelDelta) = 0
    THEN RuleNearestPoint(snapPoints', scrollTarget)
    ELSE RuleDirectionalPoint(snapPoints', scrollTarget, Sign(lastWheelDelta))

\* C31: when the wheel loop reaches its target and the last wheel event is
\* at most 85ms old, the target is unchanged and a frame stays scheduled;
\* once the idle time exceeds 85ms the loop either re-snaps, to the snap
\* point in the direction of the last wheel delta, and goes on, or stops with
\* lastWheelDelta reset to 0; it re-snaps exactly when that snap point is
\* more than 0.4px from the target.
C31_CoastThenResnap ==
    [][WheelLoopArrives =>
        IF now' - lastWheelTs' <= IdleMs
        THEN /\ scrollTarget' = scrollTarget
             /\ lastWheelDelta' = lastWheelDelta
             /\ \E c \in rafQueue' : c.fn = "animateScroll" /\ c.id = scrollRaf'
        ELSE IF Abs(ResnapPoint - scrollTarget) > Epsilon
        THEN /\ scrollTarget' = ResnapPoint
             /\ \E c \in rafQueue' : c.fn = "animateScroll" /\ c.id = scrollRaf'
        ELSE /\ scrollTarget' = scrollTarget
             /\ lastWheelDelta' = 0
             /\ scrollRaf' = 0
             /\ rafQueue' = {}]_vars

\* the wheel loop has coasted on a free target below the first magnet
\* radius, then re-snapped forward, against the nearest point, and stopped on
\* the snap point with the delta reset
C31_Witness ==
    /\ last.op = "wheel"
    /\ last.path = "handled"
    /\ last.freeTarget = 4320
    /\ scrollLeft = 28000
    /\ scrollTarget = 28000
    /\ scrollRaf = 0
    /\ lastWheelDelta = 0
    /\ now > IdleMs

-----------------------------------------------------------------------------
(* The scroll state at rest *)

\* no frame of a scroll loop is scheduled
NoLoopFrame == scrollRaf = 0 /\ rafQueue = {}

\* C32: whenever no scroll animation frame is scheduled, targetOffset equals
\* currentOffset.
C32_IdleAtTarget ==
    NoLoopFrame => scrollTarget = scrollLeft

-----------------------------------------------------------------------------
(* The layout reset *)

\* the step is a change of query, rows, columns, icon size or visible links
LayoutStep == inputs' = inputs + 1 /\ last'.op = "layout"

\* C33: a change of the filter query, the grid rows or columns, the icon size
\* or the number of visible links cancels every scheduled frame of the scroll
\* loops, recomputes the snap points for the new geometry, and leaves offset,
\* target and active page at 0 with no frame of a loop scheduled, whatever
\* animation was in flight.
C33_LayoutReset ==
    [][LayoutStep =>
        /\ \A c \in rafQueue' : c.fn \notin { "animateScroll", "animate" }
        /\ scrollRaf' = 0
        /\ snapPoints' = SnapPointsFor(last'.geometry[1], last'.geometry[3],
                                       last'.geometry[2])
        /\ geometry' = last'.geometry
        /\ pageCount' = Len(snapPoints')
        /\ scrollLeft' = 0
        /\ scrollTarget' = 0
        /\ activePage' = 0]_vars

\* a layout change has arrived while the loop of a wheel event was running
\* away from offset 0
C33_Witness ==
    /\ last.op = "layout"
    /\ inputs = 2
    /\ lastWheelDelta # 0
    /\ now > 0
    /\ pageRaf
    /\ scrollLeft = 0
    /\ scrollRaf = 0

-----------------------------------------------------------------------------
(* The window resize *)

\* the step is a window resize
ResizeStep == inputs' = inputs + 1 /\ last'.op = "resize"

\* what a resize does to the snap points and the pages, and what it leaves
ResizeRecalculates ==
    /\ geometry' = last'.geometry
    /\ snapPoints' = SnapPointsFor(columnStep', scrollWidth', clientWidth')
    /\ pageCount' = Len(snapPoints')
    /\ activePage' = Lowest(Nearest(snapPoints', scrollLeft'))
    /\ UNCHANGED <<scrollTarget, lastWheelTs, lastWheelDelta, scrollRaf, rafQueue>>

\* C34, as stated: a window resize replaces the snap points, updates
\* pageCount and activePage (the snap index nearest the live offset), and
\* leaves currentOffset, targetOffset, the wheel timestamp and delta and the
\* scheduled frame unchanged.
C34_Original ==
    [][ResizeStep => ResizeRecalculates /\ scrollLeft' = scrollLeft]_vars

\* C34, amended: a window resize replaces the snap points, updates pageCount
\* and activePage (the snap index nearest the live offset), and leaves
\* targetOffset, the wheel timestamp and delta and the scheduled frame
\* unchanged; currentOffset is unchanged when it fits the new scroll range
\* and is cut to the new maximum offset otherwise.
C34_ResizeRecalculates ==
    [][ResizeStep =>
        /\ ResizeRecalculates
        /\ scrollLeft' = IF scrollLeft <= Px(scrollWidth' - clientWidth')
                         THEN scrollLeft
                         ELSE Px(scrollWidth' - clientWidth')]_vars

\* the window has been resized with the offset at 120px, to content that
\* overflows by 2px: the offset is 2px, on the second of two snap points
C34_Witness ==
    /\ last.op = "resize"
    /\ scrollWidth = 272
    /\ snapPoints = <<0, 200>>
    /\ scrollLeft = 200
    /\ activePage = 1
    /\ pageCount = 2
    /\ inputs = 2

-----------------------------------------------------------------------------
(* Disqualified candidates *)

\* C35: a candidate whose score is the disqualifying sentinel is treated
\* like a failed probe: resolveBestFaviconUrl never returns it, even when it
\* is the only candidate whose probe succeeded.
C35_SentinelNeverReturned ==
    faviconLast.op = "resolveBestFaviconUrl" =>
        \A i \in ProbedOk(faviconLast) :
            ProbeScore(faviconLast, i) = TooSmall =>
                faviconLast.result # faviconLast.candidates[i]

-----------------------------------------------------------------------------
(* The preference of a deleted link *)

\* the link is gone from the list
Deleted(id) == id \notin Ids(links)

\* neither the map in memory nor the stored map has an entry for the link
Forgotten(id) ==
    /\ ~Has(faviconChoiceByLink, id)
    /\ ~Has(savedFaviconPrefs, id)

\* C36: after a link is deleted, its entry is eventually removed from the
\* preference map in memory and from the stored one, and stays removed, also
\* when a bulk refresh or an implicit run that started with the link is in
\* progress at the deletion.
C36_DeletedEntryPruned ==
    \A id \in LinkIds : Deleted(id) ~> [](Forgotten(id))

\* a refresh that started with two links has resolved and written both, one
\* of them was deleted meanwhile, and its entry is gone from both maps with
\* no write pending
C36_Witness ==
    /\ faviconLast.op = "refreshed"
    /\ Len(faviconLast.refreshableLinks) = 2
    /\ \E i \in 1 .. 2 :
         /\ Deleted(faviconLast.refreshableLinks[i])
         /\ faviconLast.refreshableLinks[i] \in faviconLast.written
         /\ Forgotten(faviconLast.refreshableLinks[i])
    /\ saveQueue = <<>>

-----------------------------------------------------------------------------
(* Pages, snap points and the range of the target *)

\* C37: in every reachable state pageCount is the length of the snap-point
\* sequence and 0 <= activePage < pageCount.
C37_PagesMatchSnapPoints ==
    /\ pageCount = Len(snapPoints)
    /\ 0 <= activePage
    /\ activePage < pageCount

\* C38: in every reachable state the target lies within 0 and the maximum
\* scroll offset of the current geometry.
C38_TargetInRange ==
    /\ 0 <= scrollTarget
    /\ scrollTarget <= Px(Max(0, scrollWidth - clientWidth))

-----------------------------------------------------------------------------
(* The tile between a promotion and its write *)

\* the URL the <img> of a link's tile has as its source, lines 1913-1921
RenderedUrl(choices, offsets, id) ==
    LET faviconCandidates == getRenderableFaviconCandidates(Lookup(choices, id))
    IN  faviconCandidates[ResolvedIndex(offsets, id, faviconCandidates) + 1]

\* C39: after onFaviconLoad has accepted a URL that was reached through
\* fallback advancement, the source rendered next for the link is that same
\* URL.
C39_RendersPromotedUrl ==
    [][(AcceptedLoad /\ faviconLast'.offset > 0) =>
          RenderedUrl(faviconChoiceByLink', faviconFallbackOffsetByLink',
                      faviconLast'.link) = faviconLast'.url]_vars

-----------------------------------------------------------------------------
(* The links across page loads: a fresh profile, the page is opened, links
   are deleted and added, and the page is opened again *)

MaxLinkInputs == 4

\* a new profile: nothing is stored, the page has not loaded yet
LinksInit ==
    /\ ScrollAtRest
    /\ links = <<>>
    /\ storedLinks = <<>>
    /\ meta = [linksSeeded |-> FALSE]
    /\ savedFaviconPrefs = EmptyMap
    /\ faviconChoiceByLink = EmptyMap
    /\ faviconFallbackOffsetByLink = EmptyMap
    /\ faviconRefreshState = "idle"
    /\ faviconRefreshProgress = NoProgress
    /\ faviconFeedbackTimer = FALSE
    /\ refreshTask = NoRefresh
    /\ implicitRuns = {}
    /\ saveQueue = <<>>
    /\ progressLog = <<>>
    /\ intended = EmptyMap
    /\ failedResolution = {}
    /\ faviconInputs = MaxLinkInputs
    /\ faviconLast = [op |-> "boot"]

\* the page has loaded: the mount effect has set its state
PageLoaded == faviconLast.op # "boot"

\* the tab is closed and a new one opened, once the writes of the old page
\* are through: the component starts from its initial state (lines 551-565)
\* over the same storage
OpenPageAgain ==
    /\ PageLoaded
    /\ saveQueue = <<>>
    /\ faviconInputs > 0
    /\ faviconInputs' = faviconInputs - 1
    /\ links' = <<>>
    /\ faviconChoiceByLink' = EmptyMap
    /\ faviconFallbackOffsetByLink' = EmptyMap
    /\ faviconRefreshState' = "idle"
    /\ faviconRefreshProgress' = NoProgress
    /\ faviconFeedbackTimer' = FALSE
    /\ refreshTask' = NoRefresh
    /\ implicitRuns' = {}
    /\ failedResolution' = {}
    /\ faviconLast' = [op |-> "boot"]
    /\ UNCHANGED <<savedFaviconPrefs, saveQueue, progressLog, intended,
                   scrolling, linkStore>>

LinksNext ==
    \/ MountLoaded
    \/ OpenPageAgain
    \/ \E id \in LinkIds : onDeleteLink(id)
    \/ \E useSiteFavicon \in BOOLEAN : PageLoaded /\ saveDraftLink(useSiteFavicon)
    \/ SaveResolved
    \/ \E run \in implicitRuns : ImplicitStep(run)

LinksSpec == LinksInit /\ [][LinksNext]_vars

\* the stored links are in ascending order
Ascending(stored) ==
    \A i, j \in DOMAIN stored : i < j => stored[i].order <= stored[j].order

\* C40: once meta.linksSeeded is true, a getLinks call returns exactly the
\* stored links, in ascending order, and leaves the stored links as they
\* are, also when the user has deleted every link.
C40_SeededOnce ==
    [][(Loads /\ meta.linksSeeded) =>
          /\ Ascending(storedLinks)
          /\ links' = Displayed(storedLinks)
          /\ storedLinks' = storedLinks]_vars

====
